---------------------------- MODULE Spec2Model ----------------------------
(***************************************************************************)
(* A model of the analysis core of Janus (src/janus_core.py, class core):  *)
(* the per-spectrum state, the data selections, the moments analysis, the  *)
(* initial guess, the fit selection, the non-linear fit and the rules that *)
(* propagate a change from one stage to the next.                          *)
(*                                                                         *)
(* Every method of the class is an operator that maps the object's state   *)
(* (a record s holding the fields of "self", the signals emitted so far by *)
(* the running call, the raised-exception flag and the results log) to the *)
(* state the method leaves behind.  A public call is one action: it runs   *)
(* the whole method, every method it calls included.                       *)
(*                                                                         *)
(* Numbers.  Currents, speeds and densities are integers.  A current is in *)
(* pA; velocity-bin centres are 1, 2, 3, ... in model units.  The results  *)
(* of the floating-point kernels (least squares, regression, curve_fit)    *)
(* are integer stand-ins computed from the same inputs; what the control   *)
(* flow reads of them (None or not, NaN or not) is kept exactly.           *)
(***************************************************************************)
EXTENDS Integers, Sequences, FiniteSets, TLC

VARIABLES
    self,     \* the fields of the core object
    sig,      \* signals emitted, and methods entered, by the last call, in order
    fault,    \* TRUE iff the last call ended by raising an exception
    series,   \* the results log (self.series)
    n_call,   \* the number of public calls made so far, where it is bounded
    run,      \* the activation of auto_run, and the flag self.stop_auto_run
    eff       \* the last look-up of the effective area: angle and area

vars == <<self, sig, fault, series, n_call, run, eff>>

---------------------------------------------------------------------------
(* Bounds of the model. *)

NSpec  == 4     \* spectra in the archive, with timestamps 1 .. NSpec
MaxVel == 4     \* velocity bins of an archived spectrum (before truncation)
MaxLog == 2     \* the results log is explored up to this length
MaxCall == 3    \* public calls in a run of Spec
NTog   == 3     \* azimuths, from the first of PeakAzm on, a manual toggle may name
NMfi   == 3     \* magnetic-field samples the field archive returns for a spectrum

(* Constants of the program. *)

fc_n_alt        == 2
fc_n_azm        == 20
cur_jmp         == 100
cur_min         == 1
mom_win_req_def == 7
mom_min_sel_azm == 5
mom_min_sel_cur == 3
nln_n_spc       == 4
nln_n_pop       == 5
nln_min_sel     == 30

(* Python's None and IEEE NaN for scalars; None for arrays (SomeArr is an  *)
(* array whose entries the model does not follow). Every proper number of  *)
(* the model is greater than NaN.                                          *)

None    == -999
NaN     == -998
NoneArr == [x \in {-1} |-> FALSE]
SomeArr == [x \in {-2} |-> TRUE]

IsNum(x) == x # None

Pops == 0 .. (nln_n_pop - 1)
Spcs == 0 .. (nln_n_spc - 1)

Max(a, b) == IF a >= b THEN a ELSE b
Min(a, b) == IF a <= b THEN a ELSE b

Range3(x) == {x[1], x[2], x[3]}

(* The array with the entries of f, as a value computed once. *)
Array(f) == CHOOSE g \in {f} : g = f

(* Only({ e : x \in {v} }) is e with x standing for the value of v, which *)
(* is computed once: the state a statement leaves is handed to the         *)
(* statements after it (read such a definition from its last line up).     *)
Only(S) == CHOOSE x \in S : TRUE

RECURSIVE SumTo(_, _)
SumTo(f, n) == IF n < 0 THEN 0 ELSE f[n] + SumTo(f, n - 1)

---------------------------------------------------------------------------
(* Signals and exceptions. *)

Flags(s) == <<s.dyn_mom, s.dyn_gss, s.dyn_sel, s.dyn_nln>>

Log(s, ev, name, arg) ==
    Only({ [s0 EXCEPT !.sig = Append(@, [ev |-> ev, name |-> name, arg |-> arg,
                                  dyn |-> Flags(s0), dsp |-> s0.dsp])]
    : s0 \in {s} })

emit(s, name, arg) == Log(s, "emit", name, arg)

enter(s, name) == Log(s, "call", name, "")

(* What a call of an archive returned, val, as an entry of the trace. *)
read(s, name, val) ==
    Only({ [s0 EXCEPT !.sig = Append(@, [ev |-> "read", name |-> name, arg |-> "",
                                  dyn |-> Flags(s0), dsp |-> s0.dsp,
                                  val |-> val])]
    : s0 \in {s} })

(* Data that a numerical routine was given, val, as an entry of the trace. *)
data(s, name, val) ==
    Only({ [s0 EXCEPT !.sig = Append(@, [ev |-> "data", name |-> name, arg |-> "",
                                  dyn |-> Flags(s0), dsp |-> s0.dsp,
                                  val |-> val])]
    : s0 \in {s} })

raise(s, what) == [Log(s, "raise", what, "") EXCEPT !.fault = TRUE]

Emitted(q, name, arg) ==
    \E k \in 1 .. Len(q) : q[k].ev = "emit" /\ q[k].name = name /\ q[k].arg = arg

Called(q, name) ==
    \E k \in 1 .. Len(q) : q[k].ev = "call" /\ q[k].name = name

---------------------------------------------------------------------------
(* The plasma object self.nln_pyon (module janus_pyon): species, the       *)
(* populations and the reference velocity vec_v0.                          *)

Spec0(s) == IF s = 0 THEN [m |-> 1, q |-> 1]
            ELSE IF s = 1 THEN [m |-> 4, q |-> 2]
            ELSE [m |-> None, q |-> None]

Pop0(p) ==
    [ spec  |-> IF p \in {0, 1} THEN 0 ELSE IF p \in {2, 3} THEN 1 ELSE None,
      drift |-> p \in {1, 2, 3},
      aniso |-> p \in {0, 2},
      n |-> None, dv |-> None, w |-> None, w_per |-> None, w_par |-> None ]

plas_new == [ arr_spec |-> [s \in Spcs |-> Spec0(s)],
              arr_pop  |-> [p \in Pops |-> Pop0(p)],
              vec_v0   |-> <<None, None, None>> ]

pop_valid(py, i, require_val) ==
    LET pop == py.arr_pop[i] IN
    /\ pop.spec # None
    /\ py.arr_spec[pop.spec].m # None
    /\ py.arr_spec[pop.spec].q # None
    /\ require_val =>
          /\ pop.n # None
          /\ pop.drift => pop.dv # None
          /\ IF pop.aniso THEN pop.w_per # None /\ pop.w_par # None
                          ELSE pop.w # None

res_plas_new == [ time |-> None, pops |-> <<>> ]

series_add_spec(log, rec) == Append(log, rec)

---------------------------------------------------------------------------
(* rset_var: re-initialise the groups of fields named in "what". *)

rset_swe(s, on) ==
    IF ~ on THEN s ELSE
    [s EXCEPT !.time_epc = None, !.time_vld = TRUE,
              !.vel_cen = NoneArr, !.cur = NoneArr, !.cur_vld = NoneArr,
              !.mag_x = NoneArr,
              !.n_alt = 0, !.n_azm = 0, !.n_vel = 0]

rset_mfi(s, on) ==
    IF ~ on THEN s ELSE
    [s EXCEPT !.n_mfi = 0, !.mfi_avg_nrm = None]

rset_mom_win(s, on) ==
    IF ~ on THEN s ELSE
    [s EXCEPT !.mom_win_azm_req = mom_win_req_def,
              !.mom_win_cur_req = mom_win_req_def,
              !.mom_win_azm_txt = "", !.mom_win_cur_txt = "",
              !.mom_win_azm = mom_win_req_def,
              !.mom_win_cur = mom_win_req_def]

rset_mom_sel(s, on) ==
    IF ~ on THEN s ELSE
    [s EXCEPT !.mom_n_sel_azm = 0, !.mom_n_sel_cur = NoneArr,
              !.mom_sel_azm = NoneArr, !.mom_sel_cur = NoneArr]

rset_mom_res_mut_keep(s, on) == s

rset_mom_res(s, on) ==
    IF ~ on THEN s ELSE
    [s EXCEPT !.mom_n_eta = 0,
              !.mom_n = None, !.mom_v = None, !.mom_w = None, !.mom_t = None,
              !.mom_r = None, !.mom_v_vec = NoneArr,
              !.mom_w_per = None, !.mom_w_par = None,
              !.mom_t_per = None, !.mom_t_par = None,
              !.mom_cur = NoneArr]

rset_nln_ion(s, on) ==
    IF ~ on THEN s ELSE
    [s EXCEPT !.nln_pyon = plas_new,
              !.nln_pop_use = [p \in Pops |-> p \in {0, 2}],
              !.nln_pop_vld = [p \in Pops |-> p # 4]]

rset_nln_set(s, on) ==
    IF ~ on THEN s ELSE
    [s EXCEPT !.nln_set_gss_n = [p \in Pops |-> IF p = 4 THEN None ELSE 1],
              !.nln_set_gss_d = [p \in Pops |-> IF p \in {0, 4} THEN None ELSE 1],
              !.nln_set_gss_w = [p \in Pops |-> IF p = 4 THEN None ELSE 1],
              !.nln_set_gss_vld = [p \in Pops |-> p # 4],
              !.nln_set_sel_a = [p \in Pops |-> -3],
              !.nln_set_sel_b = [p \in Pops |-> 3],
              !.nln_set_sel_vld = [p \in Pops |-> TRUE]]

rset_nln_gss_mut_keep(s, on) == s

rset_nln_gss(s, on) ==
    IF ~ on THEN s ELSE
    [s EXCEPT !.nln_pyon.arr_pop =
                  [p \in Pops |-> [@[p] EXCEPT !.n = None, !.dv = None,
                                   !.w = None, !.w_per = None, !.w_par = None]],
              !.nln_gss_vld = [p \in Pops |-> FALSE],
              !.nln_gss_pop = {},
              !.nln_gss_prm = <<>>,
              !.nln_gss_cur_tot = NoneArr]

rset_nln_sel(s, on) ==
    IF ~ on THEN s ELSE
    [s EXCEPT !.nln_sel = NoneArr, !.nln_n_sel = 0]

rset_nln_res_mut_log(s, on) ==
    IF ~ on THEN s ELSE
    [s EXCEPT !.nln_res_plas = res_plas_new, !.nln_res_sel = NoneArr,
              !.nln_res_cur_tot = NoneArr, !.nln_res_cur_ion = NoneArr,
              !.series = <<>>]

rset_nln_res(s, on) ==
    IF ~ on THEN s ELSE
    [s EXCEPT !.nln_res_plas = res_plas_new, !.nln_res_sel = NoneArr,
              !.nln_res_cur_tot = NoneArr, !.nln_res_cur_ion = NoneArr]

rset_dsp(s, on) ==
    IF ~ on THEN s ELSE
    [s EXCEPT !.dsp = "mom"]

rset_dyn(s, on) ==
    IF ~ on THEN s ELSE
    [s EXCEPT !.dyn_mom = TRUE, !.dyn_gss = TRUE,
                         !.dyn_sel = TRUE, !.dyn_nln = FALSE]

rset_var(s, what) ==
    rset_dyn(rset_dsp(rset_nln_res(rset_nln_sel(rset_nln_gss(rset_nln_set(
    rset_nln_ion(rset_mom_res(rset_mom_sel(rset_mom_win(rset_mfi(rset_swe(
        s, "swe" \in what), "mfi" \in what), "mom_win" \in what),
        "mom_sel" \in what), "mom_res" \in what), "nln_ion" \in what),
        "nln_set" \in what), "nln_gss" \in what), "nln_sel" \in what),
        "nln_res" \in what), "dsp" \in what), "dyn" \in what)

AllVar == {"swe", "mfi", "mom_win", "mom_sel", "mom_res", "nln_ion",
           "nln_set", "nln_gss", "nln_sel", "nln_res", "dsp", "dyn"}


---------------------------------------------------------------------------
(* chng_dsp: change which analysis is displayed. *)

chng_dsp(s, value) ==
    Only({ IF s0.dsp = value THEN s0
    ELSE emit([s0 EXCEPT !.dsp = IF value \in {"mom", "gsl", "nln"}
                                  THEN value ELSE "None"],
              "chng_dsp", "")
    : s0 \in {Log(s, "call", "chng_dsp", value)} })

(* chng_dyn with rerun=False: set one dynamic flag; signal only a change. *)

set_dyn(s, anal, value) ==
    Only({ IF anal = "mom" /\ s0.dyn_mom # value
        THEN emit([s0 EXCEPT !.dyn_mom = value], "chng_dyn", "")
    ELSE IF anal = "gss" /\ s0.dyn_gss # value
        THEN emit([s0 EXCEPT !.dyn_gss = value], "chng_dyn", "")
    ELSE IF anal = "sel" /\ s0.dyn_sel # value
        THEN emit([s0 EXCEPT !.dyn_sel = value], "chng_dyn", "")
    ELSE IF anal = "nln" /\ s0.dyn_nln # value
        THEN emit([s0 EXCEPT !.dyn_nln = value], "chng_dyn", "")
    ELSE s0
    : s0 \in {s} })

---------------------------------------------------------------------------
(* The parameter vector: three components of the reference velocity, then *)
(* for each population of pops in increasing index n, dv if it drifts, and *)
(* w_per, w_par if it is anisotropic, else w.                              *)

(* (the thermal speeds written before the drift) *)
RECURSIVE prm_pops_mut_order(_, _, _)
prm_pops_mut_order(py, pops, i) ==
    IF i >= nln_n_pop THEN <<>>
    ELSE LET pop == py.arr_pop[i]
             one == <<pop.n>>
                     \o (IF pop.aniso THEN <<pop.w_per, pop.w_par>>
                                      ELSE <<pop.w>>)
                     \o (IF pop.drift THEN <<pop.dv>> ELSE <<>>)
         IN  (IF i \in pops THEN one ELSE <<>>)
             \o prm_pops_mut_order(py, pops, i + 1)

RECURSIVE prm_pops(_, _, _)
prm_pops(py, pops, i) ==
    IF i >= nln_n_pop THEN <<>>
    ELSE LET pop == py.arr_pop[i]
             one == <<pop.n>>
                     \o (IF pop.drift THEN <<pop.dv>> ELSE <<>>)
                     \o (IF pop.aniso THEN <<pop.w_per, pop.w_par>>
                                      ELSE <<pop.w>>)
         IN  (IF i \in pops THEN one ELSE <<>>) \o prm_pops(py, pops, i + 1)

(* The populations read back from a vector, as anls_nln reads the fit:     *)
(* c is the number of entries consumed so far.                             *)

RECURSIVE res_pops(_, _, _, _, _)
res_pops(py, pops, i, c, fit) ==
    IF i >= nln_n_pop THEN <<>>
    ELSE IF i \notin pops THEN res_pops(py, pops, i + 1, c, fit)
    ELSE LET pop == py.arr_pop[i]
             c1  == c + 1
             c2  == IF pop.drift THEN c1 + 1 ELSE c1
             c3  == IF pop.aniso THEN c2 + 2 ELSE c2 + 1
             rec == [ pop   |-> i, spec |-> pop.spec,
                      drift |-> pop.drift, aniso |-> pop.aniso,
                      n     |-> fit[c + 1],
                      dv    |-> IF pop.drift THEN fit[c1 + 1] ELSE None,
                      w     |-> IF pop.aniso THEN None ELSE fit[c2 + 1],
                      w_per |-> IF pop.aniso THEN fit[c2 + 1] ELSE None,
                      w_par |-> IF pop.aniso THEN fit[c2 + 2] ELSE None ]
         IN  <<rec>> \o res_pops(py, pops, i + 1, c3, fit)

(* The parameters calc_nln_cur reads from prm for the populations pop, in  *)
(* its order: c is the number of entries consumed so far, and each record  *)
(* carries the count after its population.                                 *)

RECURSIVE calc_nln_cur_prm(_, _, _, _, _)
calc_nln_cur_prm(py, pops, p, c, prm) ==
    IF p >= nln_n_pop THEN <<>>
    ELSE IF p \notin pops THEN calc_nln_cur_prm(py, pops, p + 1, c, prm)
    ELSE LET pop == py.arr_pop[p]
             c1  == c + 1
             c2  == IF pop.drift THEN c1 + 1 ELSE c1
             c3  == IF pop.aniso THEN c2 + 2 ELSE c2 + 1
             rec == [ pop       |-> p,
                      prm_n     |-> prm[c + 1],
                      prm_dv    |-> IF pop.drift THEN prm[c1 + 1] ELSE None,
                      prm_w     |-> IF pop.aniso THEN None ELSE prm[c2 + 1],
                      prm_w_per |-> IF pop.aniso THEN prm[c2 + 1] ELSE None,
                      prm_w_par |-> IF pop.aniso THEN prm[c2 + 2] ELSE None,
                      c         |-> c3 ]
         IN  <<rec>> \o calc_nln_cur_prm(py, pops, p + 1, c3, prm)

---------------------------------------------------------------------------
(* anls_nln: the non-linear fit.  s.orc.fit says whether curve_fit returns *)
(* (TRUE) or raises (FALSE); the best fit stands in as the guess itself.   *)

anls_nln_mut_log(s) ==
    Only({ IF \/ s1.n_vel = 0
       \/ s1.n_mfi = 0
       \/ s1.nln_gss_pop = {}
       \/ 0 \notin s1.nln_gss_pop
       \/ Len(s1.nln_gss_prm) = 0
       \/ s1.nln_n_sel < nln_min_sel
    THEN emit(emit(s1, "mesg", "norun nln"), "chng_nln_res", "")
    ELSE
    Only({ IF s2.nln_sel = NoneArr \/ s2.mag_x = NoneArr
    THEN raise(s2, "anls_nln: None has no copy / is not subscriptable")
    ELSE
    Only({ IF ~ s3.orc.fit
    THEN emit([rset_var(emit(s3, "mesg", "fail nln"), {"nln_res"})
                  EXCEPT !.series = series_add_spec(@, res_plas_new)],
              "chng_nln_res", "")
    ELSE
    Only({ emit(emit([s3 EXCEPT !.nln_res_cur_ion = SomeArr,
                         !.nln_res_cur_tot = SomeArr,
                         !.nln_res_plas    = res,
                         !.series          = series_add_spec(@, res)],
              "mesg", "end nln"), "chng_nln_res", "")
    : res \in {[ time |-> s3.time_epc,
           pops |-> res_pops(s3.nln_pyon, s3.nln_gss_pop, 0, 3,
                             s3.nln_gss_prm) ]} })
    : s3 \in {[s2 EXCEPT !.nln_res_sel = s2.nln_sel]} })
    : s2 \in {emit(s1, "mesg", "begin nln")} })
    : s1 \in {rset_var(enter(s, "anls_nln"), {"nln_res"})} })

anls_nln(s) ==
    Only({ IF \/ s1.n_vel = 0
       \/ s1.n_mfi = 0
       \/ s1.nln_gss_pop = {}
       \/ 0 \notin s1.nln_gss_pop
       \/ Len(s1.nln_gss_prm) = 0
       \/ s1.nln_n_sel < nln_min_sel
    THEN emit(emit(s1, "mesg", "norun nln"), "chng_nln_res", "")
    ELSE
    Only({ IF s2.nln_sel = NoneArr \/ s2.mag_x = NoneArr
    THEN raise(s2, "anls_nln: None has no copy / is not subscriptable")
    ELSE
    Only({ IF ~ s3.orc.fit
    THEN emit(rset_var(emit(s3, "mesg", "fail nln"), {"nln_res"}),
              "chng_nln_res", "")
    ELSE
    Only({ emit(emit([s3 EXCEPT !.nln_res_cur_ion = SomeArr,
                         !.nln_res_cur_tot = SomeArr,
                         !.nln_res_plas    = res,
                         !.series          = series_add_spec(@, res)],
              "mesg", "end nln"), "chng_nln_res", "")
    : res \in {[ time |-> s3.time_epc,
           pops |-> res_pops(s3.nln_pyon, s3.nln_gss_pop, 0, 3,
                             s3.nln_gss_prm) ]} })
    : s3 \in {[s2 EXCEPT !.nln_res_sel = s2.nln_sel]} })
    : s2 \in {emit(s1, "mesg", "begin nln")} })
    : s1 \in {rset_var(enter(s, "anls_nln"), {"nln_res"})} })

---------------------------------------------------------------------------
(* prop_nln_sel: count the fit selection, signal it, run the fit if the    *)
(* fit is dynamic.  pnt is TRUE for a single-bin change.                   *)

Dirs(s) == (0 .. (s.n_alt - 1)) \X (0 .. (s.n_azm - 1))
Vels(s) == 0 .. (s.n_vel - 1)

CountSel(s, a) ==
    IF a = NoneArr THEN 0
    ELSE Cardinality({ b \in Dirs(s) \X Vels(s) : a[b[1][1]][b[1][2]][b[2]] })

prop_nln_sel_mut_stale(s, pnt) ==
    Only({ IF s2.dyn_nln THEN anls_nln(s2) ELSE chng_dsp(s2, "gsl")
    : s2 \in {emit(s, IF pnt THEN "chng_nln_sel_cur" ELSE "chng_nln_sel_all", "")} })

prop_nln_sel(s, pnt) ==
    Only({ Only({ IF s2.dyn_nln THEN anls_nln(s2) ELSE chng_dsp(s2, "gsl")
    : s2 \in {emit([s1 EXCEPT !.nln_n_sel = CountSel(s1, s1.nln_sel)],
              IF pnt THEN "chng_nln_sel_cur" ELSE "chng_nln_sel_all", "")} })
    : s1 \in {s} })


---------------------------------------------------------------------------
(* auto_nln_sel: the automatic fit selection.                              *)
(*                                                                         *)
(* For a population i the window of inflow speeds is                       *)
(*     [ v_proj + a w v_proj / v ,  v_proj + b w v_proj / v ] sqrt(m/q).   *)
(* The model is one-dimensional: every look direction sees the whole speed *)
(* (v_proj = v), and the thermal speed of an anisotropic population along  *)
(* it is the larger of w_per and w_par.  The factor sqrt(m/q) is exact:    *)
(* x sqrt(m/q) <= c  iff  x <= 0 or x x m <= c c q, for c >= 0.            *)

AtLeast(c, x, m, q) == x <= 0 \/ x * x * m <= c * c * q
AtMost(c, x, m, q)  == x >= 0 /\ c * c * q <= x * x * m

pop_speed(py, i) ==
    LET pop == py.arr_pop[i]
    IN  IF py.vec_v0[1] = NaN \/ (pop.drift /\ pop.dv = NaN) THEN NaN
        ELSE py.vec_v0[1] + (IF pop.drift THEN pop.dv ELSE 0)

pop_width(py, i) ==
    LET pop == py.arr_pop[i]
    IN  IF pop.aniso
        THEN (IF NaN \in {pop.w_per, pop.w_par} THEN NaN
              ELSE Max(pop.w_per, pop.w_par))
        ELSE pop.w

in_window(s, i, v) ==
    LET py  == s.nln_pyon
        spc == py.arr_spec[py.arr_pop[i].spec]
        spd == pop_speed(py, i)
        w   == pop_width(py, i)
    IN  /\ spd # NaN /\ w # NaN /\ spd # 0
        /\ AtLeast(s.vel_cen[v], spd + s.nln_set_sel_a[i] * w, spc.m, spc.q)
        /\ AtMost (s.vel_cen[v], spd + s.nln_set_sel_b[i] * w, spc.m, spc.q)

nln_sel_pop_mut_first(s) ==
    { i \in Pops : /\ s.nln_gss_vld[i] /\ s.nln_set_sel_vld[i]
                   /\ \A j \in Pops : j < i =>
                          ~ (s.nln_gss_vld[j] /\ s.nln_set_sel_vld[j]) }

nln_sel_pop(s) == { i \in Pops : s.nln_gss_vld[i] /\ s.nln_set_sel_vld[i] }

NoBins(s) ==
    Array([t \in 0 .. (s.n_alt - 1) |->
             [p \in 0 .. (s.n_azm - 1) |-> [v \in Vels(s) |-> FALSE]]])

auto_nln_sel(s) ==
    Only({ Only({ IF nln_sel_pop(s3) = {} \/ s3.n_mfi = 0
    THEN raise(s3, "auto_nln_sel: core has no attribute vldt_nln_sel")
    ELSE IF s3.mom_sel_azm = NoneArr
    THEN raise(s3, "auto_nln_sel: where(None) yields one array, two expected")
    ELSE IF s3.mom_n_sel_azm > 0 /\ None \in Range3(s3.nln_pyon.vec_v0)
    THEN raise(s3, "auto_nln_sel: arithmetic on None in vec_v0")
    ELSE
    Only({ prop_nln_sel(
        [s3 EXCEPT !.nln_sel =
            Array([t \in 0 .. (s3.n_alt - 1) |->
                     [p \in 0 .. (s3.n_azm - 1) |->
                        [v \in Vels(s3) |->
                           /\ s3.mom_sel_azm[t][p]
                           /\ s3.cur_vld[t][p][v]
                           /\ win[v]]]])],
        FALSE)
    : win \in {Array([v \in Vels(s3) |->
                  \E i \in nln_sel_pop(s3) : in_window(s3, i, v)])} })
    : s3 \in {[s2 EXCEPT !.nln_sel = NoBins(s2)]} })
    : s2 \in {rset_var(set_dyn(enter(s, "auto_nln_sel"), "sel", TRUE), {"nln_sel"})} })

(* chng_nln_sel: toggle one bin of the fit selection. *)

chng_nln_sel(s, t, p, v) ==
    Only({ Only({ IF t >= s2.n_alt \/ p >= s2.n_azm \/ v >= s2.n_vel
    THEN raise(s2, "chng_nln_sel: index out of bounds")
    ELSE prop_nln_sel([s2 EXCEPT !.nln_sel[t][p][v] = ~ @], TRUE)
    : s2 \in {IF s1.nln_sel = NoneArr THEN [s1 EXCEPT !.nln_sel = NoBins(s1)]
                                 ELSE s1} })
    : s1 \in {set_dyn(enter(s, "chng_nln_sel"), "sel", FALSE)} })

---------------------------------------------------------------------------
(* prop_nln_gss, make_nln_gss, auto_nln_gss, chng_nln_gss: the guess. *)

prop_nln_gss_mut_late(s) ==
    emit(IF s.dyn_sel THEN auto_nln_sel(s)
         ELSE IF s.dyn_nln THEN anls_nln(s)
         ELSE chng_dsp(s, "gsl"),
         "chng_nln_gss", "")

prop_nln_gss(s) ==
    Only({ IF s1.dyn_sel THEN auto_nln_sel(s1)
    ELSE IF s1.dyn_nln THEN anls_nln(s1)
    ELSE chng_dsp(s1, "gsl")
    : s1 \in {emit(s, "chng_nln_gss", "")} })

make_nln_gss(s) ==
    Only({ Only({ Only({ IF \/ s1.nln_gss_pop = {}
       \/ 0 \notin s1.nln_gss_pop
       \/ None \in Range3(s1.nln_pyon.vec_v0)
       \/ s1.n_mfi = 0
    THEN emit(s1, "chng_nln_gss", "")
    ELSE
    Only({ IF s2.vel_cen = NoneArr \/ s2.mag_x = NoneArr
    THEN raise(s2, "make_nln_gss: None is not subscriptable")
    ELSE prop_nln_gss([s2 EXCEPT !.nln_gss_cur_tot = SomeArr])
    : s2 \in {[s1 EXCEPT !.nln_gss_prm =
             s1.nln_pyon.vec_v0
             \o prm_pops(s1.nln_pyon, s1.nln_gss_pop, 0)]} })
    : s1 \in {[s0 EXCEPT !.nln_gss_vld = vld,
                    !.nln_gss_pop = { i \in Pops : vld[i] },
                    !.nln_gss_prm = <<>>,
                    !.nln_gss_cur_tot = NoneArr]} })
    : vld \in {Array([i \in Pops |-> /\ s0.nln_pop_use[i]
                               /\ s0.nln_pop_vld[i]
                               /\ pop_valid(s0.nln_pyon, i, TRUE)])} })
    : s0 \in {enter(s, "make_nln_gss")} })

(* a * b as the guarded products of auto_nln_gss give it: None when the   *)
(* product raises (an operand is None), NaN when an operand is NaN.        *)

TryMul(a, b) == IF None \in {a, b} THEN None
                ELSE IF NaN \in {a, b} THEN NaN
                ELSE a * b

gss_pop(s, i) ==
    LET pop == s.nln_pyon.arr_pop[i]
        w   == TryMul(s.nln_set_gss_w[i], s.mom_w)
    IN  [pop EXCEPT
           !.n  = TryMul(s.nln_set_gss_n[i], s.mom_n),
           !.dv = IF ~ pop.drift THEN @
                  ELSE IF s.mfi_avg_nrm = None THEN None
                  ELSE TryMul(s.mom_v, s.nln_set_gss_d[i]),
           !.w_per = IF pop.aniso THEN w ELSE @,
           !.w_par = IF pop.aniso THEN w ELSE @,
           !.w     = IF pop.aniso THEN @ ELSE w]

auto_nln_gss(s) ==
    Only({ IF s2.mom_n = None THEN make_nln_gss(s2)
    ELSE make_nln_gss(
           [s2 EXCEPT
              !.nln_pyon.vec_v0 = IF s2.mom_v_vec = NoneArr
                                  THEN <<None, None, None>>
                                  ELSE s2.mom_v_vec,
              !.nln_pyon.arr_pop =
                  Array([i \in Pops |->
                           IF /\ s2.nln_pop_use[i]
                              /\ s2.nln_pop_vld[i]
                              /\ s2.nln_set_gss_vld[i]
                           THEN gss_pop(s2, i) ELSE @[i]])])
    : s2 \in {rset_var(set_dyn(enter(s, "auto_nln_gss"), "gss", TRUE), {"nln_gss"})} })

(* chng_nln_gss: the user sets one parameter of the guess; val is a number *)
(* or None (a text the plasma object rejects).                             *)

chng_nln_gss(s, i, param, val) ==
    Only({ IF param \notin {"v_x", "v_y", "v_z"} /\ (i < 0 \/ i >= nln_n_pop)
    THEN s1
    ELSE make_nln_gss(
          IF param = "v_x" THEN [s1 EXCEPT !.nln_pyon.vec_v0[1] = val]
          ELSE IF param = "v_y" THEN [s1 EXCEPT !.nln_pyon.vec_v0[2] = val]
          ELSE IF param = "v_z" THEN [s1 EXCEPT !.nln_pyon.vec_v0[3] = val]
          ELSE IF param = "n" THEN [s1 EXCEPT !.nln_pyon.arr_pop[i].n = val]
          ELSE IF param = "dv" THEN [s1 EXCEPT !.nln_pyon.arr_pop[i].dv = val]
          ELSE IF param = "w" THEN [s1 EXCEPT !.nln_pyon.arr_pop[i].w = val]
          ELSE IF param = "w_per"
              THEN [s1 EXCEPT !.nln_pyon.arr_pop[i].w_per = val]
          ELSE IF param = "w_par"
              THEN [s1 EXCEPT !.nln_pyon.arr_pop[i].w_par = val]
          ELSE s1)
    : s1 \in {set_dyn(enter(s, "chng_nln_gss"), "gss", FALSE)} })


---------------------------------------------------------------------------
(* The data selection for the moments analysis. *)

Bad == -997      \* a window width that int( ) cannot convert

Azms(s) == 0 .. (s.n_azm - 1)
Alts(s) == 0 .. (s.n_alt - 1)

CountBins(s, sel, t, p) == Cardinality({ v \in Vels(s) : sel[t][p][v] })
CountDirs(s, azm) == Cardinality({ d \in Dirs(s) : azm[d[1]][d[2]] })

(* max_cur[t,p]: the largest valid current of a direction, 0 if none. *)
max_cur(s, t, p) ==
    LET tk == { v \in Vels(s) : s.cur_vld[t][p][v] }
    IN  IF tk = {} THEN 0
        ELSE CHOOSE c \in { s.cur[t][p][v] : v \in tk } :
                 \A v \in tk : s.cur[t][p][v] <= c

(* mm_cur[t,p] is max_cur summed over the circular window starting at p;  *)
(* p0[t] is the first azimuth where it is largest.                         *)

(* (the window without the wrap past the last azimuth) *)
auto_mom_sel_azm_mut_nowrap(s) ==
    Only({ Only({ Only({ Only({ [s EXCEPT !.mom_sel_azm = azm, !.mom_n_sel_azm = CountDirs(s, azm)]
    : azm \in {Array([t \in Alts(s) |-> [p \in Azms(s) |->
                  \E k \in 0 .. (s.mom_win_azm - 1) : p = p0[t] + k]])} })
    : p0 \in {Array([t \in Alts(s) |->
                  CHOOSE p \in Azms(s) :
                     /\ \A q \in Azms(s) : mm[t][q] <= mm[t][p]
                     /\ \A q \in Azms(s) : q < p => mm[t][q] < mm[t][p]])} })
    : mm \in {Array([t \in Alts(s) |-> [p \in Azms(s) |->
                  SumTo([w \in 0 .. (s.mom_win_azm - 1) |->
                           mc[t][(p + w) % s.n_azm]], s.mom_win_azm - 1)]])} })
    : mc \in {Array([t \in Alts(s) |-> [p \in Azms(s) |-> max_cur(s, t, p)]])} })

auto_mom_sel_azm(s) ==
    Only({ Only({ Only({ Only({ [s EXCEPT !.mom_sel_azm = azm, !.mom_n_sel_azm = CountDirs(s, azm)]
    : azm \in {Array([t \in Alts(s) |-> [p \in Azms(s) |->
                  \E k \in 0 .. (s.mom_win_azm - 1) :
                      p = (p0[t] + k) % s.n_azm]])} })
    : p0 \in {Array([t \in Alts(s) |->
                  CHOOSE p \in Azms(s) :
                     /\ \A q \in Azms(s) : mm[t][q] <= mm[t][p]
                     /\ \A q \in Azms(s) : q < p => mm[t][q] < mm[t][p]])} })
    : mm \in {Array([t \in Alts(s) |-> [p \in Azms(s) |->
                  SumTo([w \in 0 .. (s.mom_win_azm - 1) |->
                           mc[t][(p + w) % s.n_azm]], s.mom_win_azm - 1)]])} })
    : mc \in {Array([t \in Alts(s) |-> [p \in Azms(s) |-> max_cur(s, t, p)]])} })

(* The sum of the valid currents of the bins v .. v + mom_win_cur - 1. *)
win_cur_sum(s, t, p, v) ==
    SumTo([k \in 0 .. (s.mom_win_cur - 1) |->
              IF v + k < s.n_vel /\ s.cur_vld[t][p][v + k]
              THEN s.cur[t][p][v + k] ELSE 0], s.mom_win_cur - 1)

(* The start v_0 the loop over range( n_vel - mom_win_cur ) ends with. *)
win_cur_start(s, t, p) ==
    Only({ Only({ IF best = {} THEN 0
    ELSE CHOOSE v \in best : \A u \in best : v <= u
    : best \in {{ v \in DOMAIN sum : /\ sum[v] > 0
                              /\ \A u \in DOMAIN sum : sum[u] <= sum[v] }} })
    : sum \in {Array([v \in 0 .. (s.n_vel - s.mom_win_cur - 1) |->
                  win_cur_sum(s, t, p, v)])} })

auto_mom_sel_cur(s) ==
    Only({ Only({ [s EXCEPT !.mom_sel_cur = cur,
              !.mom_n_sel_cur = Array([t \in Alts(s) |-> [p \in Azms(s) |->
                                    CountBins(s, cur, t, p)]])]
    : cur \in {Array([t \in Alts(s) |-> [p \in Azms(s) |-> [v \in Vels(s) |->
                  /\ s.mom_sel_azm[t][p]
                  /\ v >= v_0[t][p]
                  /\ v <  v_0[t][p] + s.mom_win_cur]]])} })
    : v_0 \in {Array([t \in Alts(s) |-> [p \in Azms(s) |->
                  IF s.mom_sel_azm[t][p] THEN win_cur_start(s, t, p) ELSE 0]])} })

(* The signal name, n times. *)
emit_n(s, name, n) ==
    Only({ IF n <= 0 THEN s0
    ELSE [s0 EXCEPT !.sig = @ \o [i \in 1 .. n |->
                                   [ev |-> "emit", name |-> name, arg |-> "",
                                    dyn |-> Flags(s0), dsp |-> s0.dsp]]]
    : s0 \in {s} })

(* vldt_mom_sel: make mom_sel_azm agree with mom_sel_cur. *)

NoDirs(s) == Array([t \in Alts(s) |-> [p \in Azms(s) |-> FALSE]])

(* The signal chng_mom_sel_azm, once for each direction whose use differs  *)
(* from old.                                                               *)
emit_chng_mut_all(s, old) ==
    emit_n(s, "chng_mom_sel_azm", CountDirs(s, s.mom_sel_azm))

emit_chng(s, old) ==
    Only({ Only({ emit_n(s1, "chng_mom_sel_azm", n_tk)
    : n_tk \in {Cardinality({ d \in Dirs(s1) :
             s1.mom_sel_azm[d[1]][d[2]] # old[d[1]][d[2]] })} })
    : s1 \in {s} })

vldt_mom_sel_mut_keep(s) ==
    Only({ IF s0.mom_sel_cur = NoneArr
    THEN raise(s0, "vldt_mom_sel: None is not subscriptable")
    ELSE
    Only({ Only({ emit_chng([s0 EXCEPT !.mom_n_sel_cur = cnt, !.mom_sel_azm = azm,
                         !.mom_n_sel_azm = CountDirs(s0, azm)],
              s0.mom_sel_azm)
    : azm \in {Array([t \in Alts(s0) |-> [p \in Azms(s0) |->
                  cnt[t][p] >= mom_min_sel_cur]])} })
    : cnt \in {Array([t \in Alts(s0) |-> [p \in Azms(s0) |->
                  CountBins(s0, s0.mom_sel_cur, t, p)]])} })
    : s0 \in {enter(s, "vldt_mom_sel")} })

vldt_mom_sel(s) ==
    Only({ IF s0.mom_sel_cur = NoneArr
    THEN raise(s0, "vldt_mom_sel: None is not subscriptable / where( ) of "
                   \o "a comparison with None yields one array, two expected")
    ELSE
    Only({ Only({ Only({ emit_chng(IF n < mom_min_sel_azm
              THEN [s0 EXCEPT !.mom_n_sel_cur = cnt,
                              !.mom_sel_azm = NoDirs(s0),
                              !.mom_n_sel_azm = 0]
              ELSE [s0 EXCEPT !.mom_n_sel_cur = cnt,
                              !.mom_sel_azm = azm,
                              !.mom_n_sel_azm = n],
              s0.mom_sel_azm)
    : n \in {CountDirs(s0, azm)} })
    : azm \in {Array([t \in Alts(s0) |-> [p \in Azms(s0) |->
                  cnt[t][p] >= mom_min_sel_cur]])} })
    : cnt \in {Array([t \in Alts(s0) |-> [p \in Azms(s0) |->
                  CountBins(s0, s0.mom_sel_cur, t, p)]])} })
    : s0 \in {enter(s, "vldt_mom_sel")} })

(* auto_mom_sel up to and including the validation (what the keyword       *)
(* no_anls_mom=True leaves of it).                                         *)

win_txt(w) == IF w = Bad THEN "bad" ELSE ToString(w)
win_int(w) == IF w = Bad THEN None ELSE w

auto_mom_sel_only(s, win_azm, win_cur) ==
    Only({ Only({ Only({ Only({ Only({ Only({ vldt_mom_sel(emit(s6, "chng_mom_sel_all", ""))
    : s6 \in {auto_mom_sel_cur(s5)} })
    : s5 \in {auto_mom_sel_azm(s4)} })
    : s4 \in {[s3 EXCEPT
            !.mom_win_azm = Min(Max(@, mom_min_sel_azm), s3.n_azm),
            !.mom_win_cur = Min(Max(@, mom_min_sel_cur), s3.n_vel)]} })
    : s3 \in {[s2 EXCEPT
            !.mom_win_azm = IF s2.mom_win_azm_req # None
                            THEN s2.mom_win_azm_req ELSE @,
            !.mom_win_cur = IF s2.mom_win_cur_req # None
                            THEN s2.mom_win_cur_req ELSE @]} })
    : s2 \in {[s1 EXCEPT
            !.mom_win_azm_txt = IF win_azm # None THEN win_txt(win_azm) ELSE @,
            !.mom_win_cur_txt = IF win_cur # None THEN win_txt(win_cur) ELSE @,
            !.mom_win_azm_req = IF win_azm # None THEN win_int(win_azm) ELSE @,
            !.mom_win_cur_req = IF win_cur # None THEN win_int(win_cur) ELSE @]} })
    : s1 \in {rset_var(enter(s, "auto_mom_sel"), {"nln_sel"})} })


---------------------------------------------------------------------------
(* anls_mom: the moments analysis.                                         *)
(*                                                                         *)
(* The estimators are integer stand-ins over the selected bins of the used *)
(* directions: the density is the summed current, the speed the current-   *)
(* weighted mean bin centre, the thermal speed the current-weighted mean   *)
(* distance from it, plus 1.  A used direction whose selected currents sum to 0    *)
(* makes its speed estimator 0/0, and lstsq is then handed a NaN:          *)
(* s.orc.lstsq says whether that build of lstsq returns NaN (TRUE) or      *)
(* raises (FALSE).  The regression of the thermal speed on the direction   *)
(* of the field stands in as succeeding whenever there are field data.     *)

UsedDirs(s) == { d \in Dirs(s) : s.mom_sel_azm[d[1]][d[2]] }

(* The sum of wgt over the selected bins of the used direction (t, p), and *)
(* over those of all the used directions.                                  *)

SumDir(s, t, p, wgt) ==
    SumTo([v \in Vels(s) |->
             IF s.mom_sel_azm[t][p] /\ s.mom_sel_cur[t][p][v]
             THEN wgt[t][p][v] ELSE 0], s.n_vel - 1)

SumBins(s, wgt) ==
    SumTo([t \in Alts(s) |->
             SumTo([p \in Azms(s) |-> SumDir(s, t, p, wgt)], s.n_azm - 1)],
          s.n_alt - 1)

(* The currents of s, each multiplied by f at its speed bin. *)
CurTimes(s, f) ==
    Array([t \in Alts(s) |-> [p \in Azms(s) |-> [b \in Vels(s) |->
              s.cur[t][p][b] * f[b]]]])

Abs(x) == IF x < 0 THEN -x ELSE x

(* The data of the anisotropy analysis of anls_mom, as s.orc.ani gives     *)
(* them: flat says that the squared cosines between the field and the      *)
(* selected directions are all one value; slope and icept are what polyfit *)
(* returns for the squared widths against them, None each when the widths  *)
(* are one value in all directions (the line is level, at the square of    *)
(* the mean).                                                              *)
StdAni == [flat |-> FALSE, slope |-> None, icept |-> None]

(* numpy's sqrt, to the integer below; nan for a negative number. *)
Isqrt(n) ==
    IF n < 0 THEN NaN
    ELSE CHOOSE r \in 0 .. n : r * r <= n /\ (r + 1) * (r + 1) > n

(* polyfit( dat_x, dat_y, 1 ): << f_slope, f_icept >>; ww is the mean of   *)
(* the widths, NaN if a width is NaN.                                      *)
polyfit(s, ww) ==
    IF ww = NaN THEN <<NaN, NaN>>
    ELSE IF s.orc.ani.icept = None THEN <<0, ww * ww>>
    ELSE <<s.orc.ani.slope, s.orc.ani.icept>>

aniso_mut_sum(s, ww) ==
    /\ s.n_mfi > 0
    /\ ~ s.orc.ani.flat
    /\ \E f \in {polyfit(s, ww)} : f[2] = NaN \/ ~ (f[2] <= 0)

(* The value of aniso when anls_mom has made its three tests; a comparison *)
(* with NaN is false.                                                      *)
aniso(s, ww) ==
    /\ s.n_mfi > 0
    /\ ~ s.orc.ani.flat
    /\ \E f \in {polyfit(s, ww)} :
          f[2] = NaN \/ ~ (f[2] <= 0 \/ f[2] + f[1] <= 0)

(* The results anls_mom stores: n, vv, ww are the density, the speed and   *)
(* the mean of the thermal speeds, or NaN each.  Temperatures are in units *)
(* of the squared speed, mom_r in hundredths.  The data of the anisotropy  *)
(* analysis, built if there are field data, are an entry of the trace.     *)
set_mom_res(s00, n, vv, ww) ==
    Only({ Only({ Only({ Only({
           [s0 EXCEPT !.mom_n = n, !.mom_v = vv,
              !.mom_w = IF ~ ani THEN ww
                        ELSE IF ww = NaN THEN NaN
                        ELSE Isqrt((2 * per + par) \div 3),
              !.mom_t = IF ww = NaN THEN NaN
                        ELSE IF ~ ani THEN ww * ww
                        ELSE (2 * per + par) \div 3,
              !.mom_r = IF ~ ani THEN None
                        ELSE IF ww = NaN \/ par = 0 THEN NaN
                        ELSE (100 * per) \div par,
              !.mom_v_vec = IF vv = NaN THEN <<NaN, NaN, NaN>>
                            ELSE <<vv, 0, 0>>,
              !.mom_w_per = IF ~ ani THEN None
                            ELSE IF ww = NaN THEN NaN ELSE Isqrt(per),
              !.mom_w_par = IF ~ ani THEN None
                            ELSE IF ww = NaN THEN NaN ELSE Isqrt(par),
              !.mom_t_per = IF ~ ani THEN None
                            ELSE IF ww = NaN THEN NaN ELSE per,
              !.mom_t_par = IF ~ ani THEN None
                            ELSE IF ww = NaN THEN NaN ELSE par,
              !.mom_n_eta = s0.mom_n_sel_azm,
              !.mom_cur = SomeArr]
    : par \in {IF ani /\ ww # NaN THEN f[2] + f[1] ELSE None} })
    : per \in {IF ani /\ ww # NaN THEN f[2] ELSE None} })
    : ani \in {aniso(s0, ww)}, f \in {polyfit(s0, ww)} })
    : s0 \in {IF s00.n_mfi > 0 THEN data(s00, "dat_x", s00.orc.ani) ELSE s00} })

(* The estimators of anls_mom on the selected data of s. *)
calc_mom(s) ==
    IF \E d \in UsedDirs(s) : SumDir(s, d[1], d[2], s.cur) = 0
    THEN set_mom_res(s, NaN, NaN, NaN)
    ELSE
    Only({ Only({ Only({ set_mom_res(s, csum, v, w)
    : w \in {1 + (SumBins(s, CurTimes(s, [b \in Vels(s) |->
                                            Abs(s.vel_cen[b] - v)]))
                  \div csum)} })
    : v \in {SumBins(s, CurTimes(s, s.vel_cen)) \div csum} })
    : csum \in {SumBins(s, s.cur)} })

(* The end of a successful anls_mom: regenerate the guess if it is dynamic, *)
(* else display the moments.                                               *)
end_mom_mut_gss(s) == auto_nln_gss(s)

end_mom(s) ==
    IF s.dyn_gss THEN auto_nln_gss(s) ELSE chng_dsp(s, "mom")

anls_mom(s) ==
    Only({ Only({ IF \/ s2.time_epc = None
       \/ s2.n_vel = 0
       \/ s2.mom_n_sel_azm < mom_min_sel_azm
    THEN emit(emit(s2, "mesg", "norun mom"), "chng_mom_res", "")
    ELSE
    Only({ Only({ IF s3.mom_n = NaN /\ ~ s3.orc.lstsq
    THEN raise(rset_var(s3, {"mom_res"}),
               "anls_mom: lstsq does not converge on NaN")
    ELSE
    Only({ end_mom(s5)
    : s5 \in {emit(emit(s3, "mesg", "end mom"), "chng_mom_res", "")} })
    : s3 \in {calc_mom(s2b)} })
    : s2b \in {emit(s2, "mesg", "begin mom")} })
    : s2 \in {IF s1.mom_sel_azm = NoneArr \/ s1.mom_sel_cur = NoneArr
         THEN auto_mom_sel_only(s1, None, None)
         ELSE s1} })
    : s1 \in {rset_var(enter(s, "anls_mom"), {"mom_res"})} })

(* auto_mom_sel: the automatic selection; win_azm and win_cur are None (no *)
(* new width), Bad or a number.                                            *)

auto_mom_sel(s, win_azm, win_cur, no_anls_mom) ==
    Only({ IF no_anls_mom THEN s1 ELSE anls_mom(s1)
    : s1 \in {auto_mom_sel_only(s, win_azm, win_cur)} })

(* chng_mom_sel: toggle one bin of the selection for the moments. *)

chng_mom_sel(s, t, p, v) ==
    Only({ IF s0.mom_sel_cur = NoneArr
    THEN raise(s0, "chng_mom_sel: None is not subscriptable")
    ELSE IF t >= s0.n_alt \/ p >= s0.n_azm \/ v >= s0.n_vel
    THEN raise(s0, "chng_mom_sel: index out of bounds")
    ELSE
    Only({ anls_mom(set_dyn(s3, "mom", TRUE))
    : s3 \in {vldt_mom_sel(emit([s0 EXCEPT !.mom_sel_cur[t][p][v] = ~ @],
                           "chng_mom_sel_cur", ""))} })
    : s0 \in {enter(s, "chng_mom_sel")} })


---------------------------------------------------------------------------
(* The ion species and populations of the fit.                             *)

prop_nln_ion(s) ==
    Only({ Only({ IF s2.dyn_gss THEN auto_nln_gss(s2) ELSE make_nln_gss(s2)
    : s2 \in {emit([s1 EXCEPT !.nln_pop_vld =
                  Array([p \in Pops |-> pop_valid(s1.nln_pyon, p, FALSE)])],
              "chng_nln_ion", "")} })
    : s1 \in {s} })

(* chng_nln_spc: param is "m" or "q"; val is a number, or None for a text  *)
(* float( ) rejects.                                                       *)

chng_nln_spc(s, i, param, val) ==
    Only({ Only({ IF i < 0 \/ i >= nln_n_spc THEN s0
    ELSE prop_nln_ion(
           IF param = "m" THEN [s0 EXCEPT !.nln_pyon.arr_spec[i].m = new]
           ELSE IF param = "q" THEN [s0 EXCEPT !.nln_pyon.arr_spec[i].q = new]
           ELSE s0)
    : new \in {IF val # None /\ val >= 0 THEN val ELSE None} })
    : s0 \in {enter(s, "chng_nln_spc")} })

(* chng_nln_pop: param is "use", "spec", "drift" or "aniso".               *)

chng_nln_pop(s, i, param, val) ==
    Only({ IF i < 0 \/ i >= nln_n_pop THEN s0
    ELSE prop_nln_ion(
           IF param = "use" THEN [s0 EXCEPT !.nln_pop_use[i] = val]
           ELSE IF param = "spec"
              THEN [s0 EXCEPT !.nln_pyon.arr_pop[i].spec =
                       IF val >= 0 /\ val < nln_n_spc THEN val ELSE None]
           ELSE IF param = "drift"
              THEN [s0 EXCEPT !.nln_pyon.arr_pop[i].drift = val]
           ELSE IF param = "aniso"
              THEN [s0 EXCEPT !.nln_pyon.arr_pop[i].aniso = val]
           ELSE s0)
    : s0 \in {enter(s, "chng_nln_pop")} })

(* prop_nln_set and chng_nln_set: the settings of the automatic guess and  *)
(* of the automatic fit selection.  For "sel" val is a pair <<a, b>>.      *)

prop_nln_set(s, chng) ==
    Only({ IF chng \notin {"gss", "sel"} THEN s1
    ELSE
    Only({ IF s2.fault THEN s2
    ELSE IF ~ s2.dyn_nln THEN chng_dsp(s2, "gsl")
    ELSE s2
    : s2 \in {IF chng = "gss" THEN auto_nln_gss(s1) ELSE auto_nln_sel(s1)} })
    : s1 \in {emit(s, "chng_nln_set", "")} })

(* float( val ): None when float( ) raises (val is None, or Bad, a text     *)
(* that is no number).                                                     *)
to_float(val) == IF val \in {None, Bad} THEN None ELSE val

PosOrNone(val) == IF to_float(val) # None /\ val > 0 THEN val ELSE None

(* The call of chng_nln_set as the trace records it: the parameter, and    *)
(* whether a value given is unparsable.                                    *)
ArgSet(param, val) ==
    param \o (IF \/ param # "sel" /\ val = Bad
                 \/ param = "sel" /\ Bad \in {val[1], val[2]}
              THEN " bad" ELSE "")

chng_nln_set(s, i, param, val) ==
    Only({ IF i < 0 \/ i >= nln_n_pop THEN s0
    ELSE IF param \notin {"gss_n", "gss_d", "gss_w", "sel"} THEN s0
    ELSE
    Only({ prop_nln_set(
        [s1 EXCEPT
           !.nln_set_gss_vld[i] =
               ~ \/ s1.nln_set_gss_n[i] = None
                 \/ s1.nln_set_gss_w[i] = None
                 \/ /\ s1.nln_pyon.arr_pop[i].drift
                    /\ s1.nln_set_gss_d[i] = None,
           !.nln_set_sel_vld[i] =
               ~ \/ s1.nln_set_sel_a[i] = None
                 \/ s1.nln_set_sel_b[i] = None],
        IF param = "sel" THEN "sel" ELSE "gss")
    : s1 \in {IF param = "gss_n"
             THEN [s0 EXCEPT !.nln_set_gss_n[i] = PosOrNone(val)]
         ELSE IF param = "gss_d"
             THEN [s0 EXCEPT !.nln_set_gss_d[i] = to_float(val)]
         ELSE IF param = "gss_w"
             THEN [s0 EXCEPT !.nln_set_gss_w[i] = PosOrNone(val)]
         ELSE IF /\ to_float(val[1]) # None /\ to_float(val[2]) # None
                 /\ val[1] >= val[2]
             THEN [s0 EXCEPT !.nln_set_sel_a[i] = None,
                             !.nln_set_sel_b[i] = None]
         ELSE [s0 EXCEPT !.nln_set_sel_a[i] = to_float(val[1]),
                         !.nln_set_sel_b[i] = to_float(val[2])]} })
    : s0 \in {Log(s, "call", "chng_nln_set", ArgSet(param, val))} })

---------------------------------------------------------------------------
(* chng_dyn: switch a dynamic flag; switching one on re-runs its stage.    *)

(* The re-run of chng_dyn: the analysis anal, then the display. *)
rerun_dyn(s, anal) ==
    Only({ IF s2.fault THEN s2
    ELSE IF anal = "mom"
        THEN (IF ~ s2.dyn_sel /\ ~ s2.dyn_gss THEN chng_dsp(s2, "mom")
              ELSE IF s2.dyn_nln THEN chng_dsp(s2, "nln")
              ELSE chng_dsp(s2, "gsl"))
    ELSE IF anal \in {"gss", "sel"}
        THEN (IF s2.dyn_nln THEN chng_dsp(s2, "nln")
              ELSE chng_dsp(s2, "gsl"))
    ELSE chng_dsp(s2, "nln")
    : s2 \in {IF anal = "mom" THEN anls_mom(s)
         ELSE IF anal = "gss" THEN auto_nln_gss(s)
         ELSE IF anal = "sel" THEN auto_nln_sel(s)
         ELSE anls_nln(s)} })

(* The arguments of a call of chng_dyn, as the trace records them. *)
ArgDyn(anal, value, rerun) ==
    anal \o (IF value THEN " on" ELSE " off") \o (IF rerun THEN " rerun" ELSE "")

chng_dyn_mut_always(s, anal, value, rerun) ==
    Only({ Only({ IF anal \notin {"mom", "gss", "sel", "nln"} THEN s0
    ELSE IF ~ (value /\ rerun) THEN s1
    ELSE rerun_dyn(s1, anal)
    : s1 \in {set_dyn(s0, anal, value)} })
    : s0 \in {Log(s, "call", "chng_dyn", ArgDyn(anal, value, rerun))} })

chng_dyn(s, anal, value, rerun) ==
    Only({ Only({ IF anal \notin {"mom", "gss", "sel", "nln"} THEN s0
    ELSE IF Flags(s1) = Flags(s0) THEN s0
    ELSE IF ~ (value /\ rerun) THEN s1
    ELSE rerun_dyn(s1, anal)
    : s1 \in {set_dyn(s0, anal, value)} })
    : s0 \in {Log(s, "call", "chng_dyn", ArgDyn(anal, value, rerun))} })


---------------------------------------------------------------------------
(* The archives (modules janus_fc_arcv and janus_mfi_arcv).  The Faraday-  *)
(* cup archive holds the spectra of the timestamps 1 .. NSpec:             *)
(*   1  a peak of current around azimuths PeakAzm, field data;             *)
(*   2  every current below the floor cur_min, field data;                 *)
(*   3  the peak, no field data;                                           *)
(*   4 and later  the peak, field data, and speeds that step back at the   *)
(*      third bin of the second cup.                                       *)

Iddqd == -996    \* the request that toggles the debugging mode

PeakAzm == 5 .. 11

arc_load_spec(time, get_next) ==
    LET k == IF get_next THEN time + 1 ELSE time
    IN  IF k \in 1 .. NSpec THEN k ELSE None

arc_cur(k) ==
    Array([t \in 0 .. (fc_n_alt - 1) |-> [p \in 0 .. (fc_n_azm - 1) |->
        [v \in 0 .. (MaxVel - 1) |->
            IF k = 2 THEN 0
            ELSE IF p \in PeakAzm
                 THEN (IF v \in {0, MaxVel - 1} THEN 3 ELSE 2)
                 ELSE 1]]])

arc_c_vel(k, cup) ==
    Array([v \in 0 .. (MaxVel - 1) |->
        IF k >= 4 /\ cup = 2 /\ v >= 2 THEN v - 1 ELSE v + 1])

arc_load_rang(k) == IF k = 3 THEN 0 ELSE NMfi

(* What the two archives return for a timestamp: the currents, the speeds  *)
(* of the two cups and the number of field samples.  s.orc.arc is the      *)
(* archive a call reads; StdArc is the one described above.                *)

StdArc ==
    [k \in 1 .. NSpec |->
        [cur |-> arc_cur(k), c_vel1 |-> arc_c_vel(k, 1),
         c_vel2 |-> arc_c_vel(k, 2), rang |-> arc_load_rang(k)]]

(* load_mfi: the magnetic field over the duration of the spectrum. *)

load_mfi(s) ==
    Only({ IF s1.time_epc = None \/ s1.n_vel = 0 THEN s1
    ELSE
    Only({ IF s3.n_mfi = 0 THEN emit(s3, "chng_mfi", "")
    ELSE IF s3.n_mfi < 3
    THEN raise(s3, "load_mfi: index out of bounds in psi_b")
    ELSE emit(emit([s3 EXCEPT !.mfi_avg_nrm = 1, !.mag_x = SomeArr],
                   "mesg", "end mfi"), "chng_mfi", "")
    : s3 \in {[emit(s1, "mesg", "begin mfi")
             EXCEPT !.n_mfi = s1.orc.arc[s1.time_epc].rang]} })
    : s1 \in {rset_var(enter(s, "load_mfi"), {"mfi"})} })

(* The number of bins load_spec keeps: it stops at the first bin whose     *)
(* speed, in either cup, is below that of the bin before.                  *)

keep_n_vel(c1, c2) ==
    Only({ Only({ CHOOSE n \in stop : \A m \in stop : n <= m
    : stop \in {{ n \in 1 .. len : \/ n = len
                            \/ c1[n] < c1[n - 1]
                            \/ c2[n] < c2[n - 1] }} })
    : len \in {Cardinality(DOMAIN c1)} })

cur_valid(cur, n_vel, t, p, v) ==
    LET c == cur[t][p] IN
    IF n_vel < 2 THEN TRUE
    ELSE IF c[v] < cur_min THEN FALSE
    ELSE IF v = 0 /\ c[v] > cur_jmp * c[v + 1] THEN FALSE
    ELSE IF v = n_vel - 1 /\ c[v] > cur_jmp * c[v - 1] THEN FALSE
    ELSE ~ /\ c[v] > cur_jmp * c[(v - 1) % n_vel]
           /\ c[v] > cur_jmp * c[v + 1]

(* load_spec: time_req is Iddqd, Bad (not a time) or a timestamp. *)

(* What load_spec stores of the spectrum k of the archive. *)
store_spec(s, k) ==
    Only({ Only({ Only({ [read(s, "fc_arcv", <<c_vel[1], c_vel[2]>>) EXCEPT
       !.time_epc = k, !.time_vld = TRUE,
       !.vel_cen = Array([v \in 0 .. (n - 1) |-> c_vel[1][v]]),
       !.cur = cur,
       !.n_alt = fc_n_alt, !.n_azm = fc_n_azm, !.n_vel = n,
       !.cur_vld =
           Array([t \in 0 .. (fc_n_alt - 1) |->
              [p \in 0 .. (fc_n_azm - 1) |->
                 [v \in 0 .. (n - 1) |-> cur_valid(cur, n, t, p, v)]]])]
    : cur \in {Array([t \in 0 .. (fc_n_alt - 1) |->
                  [p \in 0 .. (fc_n_azm - 1) |->
                     [v \in 0 .. (n - 1) |-> s.orc.arc[k].cur[t][p][v]]]])} })
    : n \in {keep_n_vel(c_vel[1], c_vel[2])} })
    : c_vel \in {<<s.orc.arc[k].c_vel1, s.orc.arc[k].c_vel2>>} })

(* The end of load_spec: the moments analysis, if it is dynamic. *)
end_spec_mut_all(s) == anls_mom(s)

end_spec(s) == IF s.dyn_mom THEN anls_mom(s) ELSE s

adjust_dsp_mut_keep(s) ==
    IF s.dsp \in {"gsl", "nln"}
    THEN emit(emit([s EXCEPT !.dyn_mom = TRUE, !.dyn_sel = TRUE],
                   "chng_dyn", ""), "chng_dsp", "")
    ELSE s

(* load_spec makes the display and the dynamic flags agree. *)
adjust_dsp(s) ==
    IF s.dsp \in {"gsl", "nln"}
    THEN emit(emit(
           [s EXCEPT !.dyn_mom = TRUE, !.dyn_gss = TRUE, !.dyn_sel = TRUE,
                     !.dsp = IF @ = "nln" /\ ~ s.dyn_nln THEN "gsl" ELSE @],
           "chng_dyn", ""), "chng_dsp", "")
    ELSE s

load_spec(s, time_req, get_next) ==
    Only({ IF time_req = Iddqd
    THEN emit(emit([s1 EXCEPT !.debug = ~ @], "chng_spc", ""), "mesg",
              IF s1.debug THEN "end debug" ELSE "begin debug")
    ELSE
    Only({ Only({ IF ~ s3.time_vld THEN emit(s3, "mesg", "fail time")
    ELSE
    Only({ IF k = None THEN emit(emit(s3, "mesg", "begin fc"), "chng_spc", "")
    ELSE
    Only({ IF s6.fault THEN s6 ELSE end_spec(s6)
    : s6 \in {load_mfi(emit(emit(store_spec(emit(s3, "mesg", "begin fc"), k),
                            "mesg", "end fc"), "chng_spc", ""))} })
    : k \in {arc_load_spec(time_req, get_next)} })
    : s3 \in {adjust_dsp(s2)} })
    : s2 \in {[s1 EXCEPT !.time_vld = (time_req # Bad)]} })
    : s1 \in {rset_var(emit(enter(s, "load_spec"), "rset", ""),
                  {"swe", "mfi", "mom_sel", "mom_res",
                   "nln_gss", "nln_sel", "nln_res"})} })


---------------------------------------------------------------------------
(* The object after construction: __init__ with no time, and init_var.     *)

Blank ==
    [ debug |-> FALSE,
      time_epc |-> None, time_vld |-> TRUE,
      vel_cen |-> NoneArr, cur |-> NoneArr, cur_vld |-> NoneArr,
      mag_x |-> NoneArr, n_alt |-> 0, n_azm |-> 0, n_vel |-> 0,
      n_mfi |-> 0, mfi_avg_nrm |-> None,
      mom_win_azm_req |-> None, mom_win_cur_req |-> None,
      mom_win_azm_txt |-> "", mom_win_cur_txt |-> "",
      mom_win_azm |-> None, mom_win_cur |-> None,
      mom_n_sel_azm |-> 0, mom_n_sel_cur |-> NoneArr,
      mom_sel_azm |-> NoneArr, mom_sel_cur |-> NoneArr,
      mom_n_eta |-> 0, mom_n |-> None, mom_v |-> None, mom_w |-> None,
      mom_t |-> None, mom_r |-> None, mom_v_vec |-> NoneArr,
      mom_w_per |-> None, mom_w_par |-> None,
      mom_t_per |-> None, mom_t_par |-> None, mom_cur |-> NoneArr,
      nln_pyon |-> plas_new,
      nln_pop_use |-> [p \in Pops |-> FALSE],
      nln_pop_vld |-> [p \in Pops |-> FALSE],
      nln_set_gss_n |-> [p \in Pops |-> None],
      nln_set_gss_d |-> [p \in Pops |-> None],
      nln_set_gss_w |-> [p \in Pops |-> None],
      nln_set_gss_vld |-> [p \in Pops |-> FALSE],
      nln_set_sel_a |-> [p \in Pops |-> None],
      nln_set_sel_b |-> [p \in Pops |-> None],
      nln_set_sel_vld |-> [p \in Pops |-> FALSE],
      nln_gss_vld |-> [p \in Pops |-> FALSE],
      nln_gss_pop |-> {}, nln_gss_prm |-> <<>>,
      nln_gss_cur_tot |-> NoneArr,
      nln_sel |-> NoneArr, nln_n_sel |-> 0,
      nln_res_plas |-> res_plas_new, nln_res_sel |-> NoneArr,
      nln_res_cur_tot |-> NoneArr, nln_res_cur_ion |-> NoneArr,
      dsp |-> "mom",
      dyn_mom |-> FALSE, dyn_gss |-> FALSE, dyn_sel |-> FALSE,
      dyn_nln |-> FALSE ]

init_var(s) == rset_var(s, AllVar)

(* No auto_run active: pc is where auto_run stands ("idle" before its      *)
(* call, "done" after its return); stop_auto_run is the flag of the object *)
(* (False after init_var), the rest are the arguments and locals of        *)
(* auto_run.  req, req_at, late and past record the run for the            *)
(* properties: a stop was requested from outside, where auto_run stood     *)
(* then, the number of load_spec started after that request, the number of *)
(* spectra loaded with a timestamp after time_stop.                        *)

NoRun ==
    [ pc |-> "idle", stop_auto_run |-> FALSE, first_pass |-> FALSE,
      time_strt |-> None, time_stop |-> None,
      get_next |-> FALSE, err_halt |-> FALSE,
      req |-> FALSE, req_at |-> "", late |-> 0, past |-> 0 ]

(* No effective area has been looked up. *)
NoEff == [psi |-> None, area |-> None]

Init ==
    /\ self = init_var(Blank)
    /\ sig = <<>>
    /\ fault = FALSE
    /\ series = <<>>
    /\ n_call = 0
    /\ run = NoRun
    /\ eff = NoEff

(* A public call: the method runs on the object with an empty trace, and   *)
(* what it leaves (also when it raises) is the next state.  orc holds the  *)
(* outcomes of the numerical kernels during the call.                      *)

Orc == [fit : BOOLEAN, lstsq : BOOLEAN, arc : {StdArc}, ani : {StdAni}]

Enter(orc) ==
    self @@ [sig |-> <<>>, fault |-> FALSE, series |-> series, orc |-> orc]

Do(r) ==
    \E x \in {r} :
        /\ Len(x.series) <= MaxLog
        /\ self' = [k \in DOMAIN self |-> x[k]]
        /\ sig' = x.sig
        /\ fault' = x.fault
        /\ series' = x.series
        /\ run' = run
        /\ eff' = eff


---------------------------------------------------------------------------
(* The public calls.  Each takes the sets its arguments are drawn from and *)
(* the outcomes the numerical kernels may have during it.                  *)

CallLoadSpec(T, O) ==
    \E time_req \in T, o \in O :
        Do(load_spec(Enter(o), time_req, FALSE))

CallAutoMomSel(WA, WC, O) ==
    \E wa \in WA, wc \in WC, o \in O :
        Do(auto_mom_sel(Enter(o), wa, wc, FALSE))

CallChngMomSel(D, O) ==
    \E d \in D, o \in O :
        Do(chng_mom_sel(Enter(o), d[1], d[2], 0))

CallVldtMomSel(O) ==
    \E o \in O : Do(vldt_mom_sel(Enter(o)))

CallAnlsMom(O) ==
    \E o \in O : Do(anls_mom(Enter(o)))

CallChngNlnSpc(E, O) ==
    \E e \in E, o \in O :
        Do(chng_nln_spc(Enter(o), e[1], e[2], e[3]))

CallChngNlnPop(E, O) ==
    \E e \in E, o \in O :
        Do(chng_nln_pop(Enter(o), e[1], e[2], e[3]))

CallChngNlnSet(E, O) ==
    \E e \in E, o \in O :
        Do(chng_nln_set(Enter(o), e[1], e[2], e[3]))

CallAutoNlnGss(O) ==
    \E o \in O : Do(auto_nln_gss(Enter(o)))

CallChngNlnGss(E, O) ==
    \E e \in E, o \in O :
        Do(chng_nln_gss(Enter(o), e[1], e[2], e[3]))

CallAutoNlnSel(O) ==
    \E o \in O : Do(auto_nln_sel(Enter(o)))

CallChngNlnSel(D, O) ==
    \E d \in D, o \in O :
        Do(chng_nln_sel(Enter(o), d[1], d[2], 0))

CallAnlsNln(O) ==
    \E o \in O : Do(anls_nln(Enter(o)))

CallChngDyn(A, O) ==
    \E anal \in A, value \in BOOLEAN, rerun \in BOOLEAN, o \in O :
        Do(chng_dyn(Enter(o), anal, value, rerun))

CallChngDsp(V, O) ==
    \E value \in V, o \in O :
        Do(chng_dsp(Enter(o), value))

---------------------------------------------------------------------------
(* LastCall is the public call that led to the state.  Spec: up to MaxCall *)
(* public calls, any of them, each with few arguments.  Spectrum 1 has     *)
(* field data, spectrum 3 has none; Bad is not a time.  lstsq is never     *)
(* handed a NaN here (no spectrum loaded has a direction without current). *)

LastCall == IF sig = <<>> THEN "init" ELSE sig[1].name

Count == n_call < MaxCall /\ n_call' = n_call + 1

OrcFit   == [fit : BOOLEAN, lstsq : {TRUE}, arc : {StdArc}, ani : {StdAni}]
OneDir   == {<<0, 5>>}

(* The archives of the survey: one spectrum (at every timestamp) whose     *)
(* currents are lv, bin by bin, in the PeakWid azimuths from pk on in the  *)
(* first row and from pk + RowShift on in the second (modulo fc_n_azm),    *)
(* and 1 elsewhere; the speeds of a cup rise by one from bin to bin        *)
(* (c_up), or stay (c_flat) or step back (c_back) once, at bin j.          *)

Levels == {0, 1, 2, 3 * cur_jmp}

PeakWid  == 7
RowShift == 3

c_up == [v \in 0 .. (MaxVel - 1) |-> v + 1]
c_flat(j) == [v \in 0 .. (MaxVel - 1) |-> IF v < j THEN v + 1 ELSE v]
c_back(j) == [v \in 0 .. (MaxVel - 1) |-> IF v < j THEN v + 1 ELSE v - 1]

SurveyVel ==
    {c_up} \cup { c_flat(j) : j \in 1 .. (MaxVel - 1) }
           \cup { c_back(j) : j \in 1 .. (MaxVel - 1) }

SurveyCur(lv, pk) ==
    [t \in 0 .. (fc_n_alt - 1) |-> [p \in 0 .. (fc_n_azm - 1) |->
        [v \in 0 .. (MaxVel - 1) |->
            IF (p - pk - RowShift * t) % fc_n_azm < PeakWid
            THEN lv[v] ELSE 1]]]

SurveyArc(lv, c1, c2, pk) ==
    [k \in 1 .. NSpec |->
        [cur |-> SurveyCur(lv, pk), c_vel1 |-> c1, c_vel2 |-> c2,
         rang |-> NMfi]]

OrcSurvey(lv, c1, c2, pk) ==
    [fit |-> TRUE, lstsq |-> TRUE, arc |-> SurveyArc(lv, c1, c2, pk),
     ani |-> StdAni]

(* The survey: every choice of currents with speeds that rise or step back *)
(* in the first cup; every choice of speeds with currents of 1; and a peak *)
(* that wraps around the last azimuth.                                     *)
SurveyIn ==
    { <<lv, c, c_up, 5>> :
        lv \in [0 .. (MaxVel - 1) -> Levels],
        c \in {c_up} \cup { c_back(j) : j \in 1 .. (MaxVel - 1) } }
    \cup
    { <<[v \in 0 .. (MaxVel - 1) |-> 1], c[1], c[2], 5>> :
        c \in (SurveyVel \X {c_up}) \cup ({c_up} \X SurveyVel) }
    \cup
    { <<lv, c_up, c_up, fc_n_azm - 3>> :
        lv \in [0 .. (MaxVel - 1) -> {0, 2}] }

(* The widths asked of auto_mom_sel in the survey: azimuths, bins. *)
SurveyWin == {<<1, 3>>, <<8, 3>>, <<fc_n_azm + 5, 3>>}

(* SpecLoad: a spectrum of the survey, or spectrum 2 of the standard       *)
(* archive (no current at all, with either build of lstsq), is loaded into *)
(* the new object, then the automatic selection is run with widths of the  *)
(* survey.                                                                 *)

LoadSurvey ==
    /\ n_call = 0 /\ n_call' = 1
    /\ \/ \E i \in SurveyIn :
            Do(load_spec(Enter(OrcSurvey(i[1], i[2], i[3], i[4])), 1, FALSE))
       \/ CallLoadSpec({2}, Orc)

SelSurvey ==
    /\ n_call = 1 /\ n_call' = 2
    /\ \E w \in SurveyWin, o \in [fit : {TRUE}, lstsq : {TRUE}, arc : {StdArc}, ani : {StdAni}] :
            Do(auto_mom_sel(Enter(o), w[1], w[2], FALSE))


LoadSpec ==
    Count /\ CallLoadSpec({1, 3, Bad}, OrcFit)
AutoMomSel ==
    Count /\ CallAutoMomSel({None}, {None}, OrcFit)
ChngMomSel ==
    Count /\ CallChngMomSel(OneDir, OrcFit)
VldtMomSel ==
    Count /\ CallVldtMomSel(OrcFit)
AnlsMom ==
    Count /\ CallAnlsMom(OrcFit)
ChngNlnSpc ==
    Count /\ CallChngNlnSpc({<<1, "m", 4>>}, OrcFit)
ChngNlnPop ==
    Count /\ CallChngNlnPop({<<0, "use", FALSE>>, <<0, "use", TRUE>>}, OrcFit)
ChngNlnSet ==
    Count /\ CallChngNlnSet({<<0, "sel", <<-3, 3>> >>}, OrcFit)
AutoNlnGss ==
    Count /\ CallAutoNlnGss(OrcFit)
ChngNlnGss ==
    Count /\ CallChngNlnGss({<<0, "n", 2>>, <<0, "v_x", None>>}, OrcFit)
AutoNlnSel ==
    Count /\ CallAutoNlnSel(OrcFit)
ChngNlnSel ==
    Count /\ CallChngNlnSel(OneDir, OrcFit)
AnlsNln ==
    Count /\ CallAnlsNln(OrcFit)
ChngDyn ==
    Count /\ CallChngDyn({"mom", "gss", "sel", "nln"}, OrcFit)
ChngDsp ==
    Count /\ CallChngDsp({"mom", "gsl", "nln"}, OrcFit)

Next ==
    \/ LoadSpec
    \/ AutoMomSel
    \/ ChngMomSel
    \/ VldtMomSel
    \/ AnlsMom
    \/ ChngNlnSpc
    \/ ChngNlnPop
    \/ ChngNlnSet
    \/ AutoNlnGss
    \/ ChngNlnGss
    \/ AutoNlnSel
    \/ ChngNlnSel
    \/ AnlsNln
    \/ ChngDyn
    \/ ChngDsp

Spec == Init /\ [][Next]_vars

NextLoad == LoadSurvey \/ SelSurvey

SpecLoad == Init /\ [][NextLoad]_vars

(* SpecTog: spectrum 1 is loaded, the automatic selection is run with the  *)
(* narrowest windows (mom_min_sel_azm azimuths in each row and             *)
(* mom_min_sel_cur bins in each of them), and then bins of the directions  *)
(* TogDirs are toggled by hand, and the selection validated again; the     *)
(* moments analysis is asked for at any time.  Up to MaxTog calls in all.  *)

MaxTog == 9

TogDirs == {<<0, 5>>, <<0, 6>>, <<0, 7>>, <<0, 8>>, <<1, 5>>, <<1, 6>>}

OrcTog == [fit : {TRUE}, lstsq : {TRUE}, arc : {StdArc}, ani : {StdAni}]

LoadTog ==
    /\ n_call = 0 /\ n_call' = 1
    /\ CallLoadSpec({1}, OrcTog)

AutoTog ==
    /\ n_call = 1 /\ n_call' = 2
    /\ CallAutoMomSel({1}, {mom_min_sel_cur}, OrcTog)

TogSel ==
    /\ n_call \in 2 .. (MaxTog - 1) /\ n_call' = n_call + 1
    /\ CallChngMomSel(TogDirs, OrcTog)

VldtTog ==
    /\ n_call \in 2 .. (MaxTog - 1) /\ n_call' = n_call + 1
    /\ CallVldtMomSel(OrcTog)

AnlsTog ==
    /\ n_call < MaxTog /\ n_call' = n_call + 1
    /\ CallAnlsMom(OrcTog)

NextTog == LoadTog \/ AutoTog \/ TogSel \/ VldtTog \/ AnlsTog

SpecTog == Init /\ [][NextTog]_vars

(* SpecPrm: spectrum 1 is loaded, then the populations PrmPops are taken   *)
(* in and out of use and their drift and anisotropy switched, and guess    *)
(* values are set by hand, up to MaxPrm calls in all.                      *)

MaxPrm == 4

PrmPops == 0 .. 2

PrmGss == {<<0, "w_par", 9>>, <<2, "dv", 8>>, <<1, "w", 7>>}

LoadPrm ==
    /\ n_call = 0 /\ n_call' = 1
    /\ CallLoadSpec({1}, OrcTog)

PopPrm ==
    /\ n_call \in 1 .. (MaxPrm - 1) /\ n_call' = n_call + 1
    /\ CallChngNlnPop(PrmPops \X {"use", "drift", "aniso"} \X BOOLEAN, OrcTog)

GssPrm ==
    /\ n_call \in 1 .. (MaxPrm - 1) /\ n_call' = n_call + 1
    /\ CallChngNlnGss(PrmGss, OrcTog)

NextPrm == LoadPrm \/ PopPrm \/ GssPrm

SpecPrm == Init /\ [][NextPrm]_vars

(* SpecSet: settings are given with values that are numbers or no numbers, *)
(* before and after spectrum 1 is loaded, up to MaxSet calls in all.       *)

MaxSet == 3

SetVals ==
    {<<0, "gss_n", Bad>>, <<0, "gss_n", 2>>, <<2, "gss_d", Bad>>,
     <<2, "gss_d", 3>>, <<0, "gss_w", Bad>>,
     <<0, "sel", <<Bad, 3>> >>, <<2, "sel", <<-3, Bad>> >>,
     <<0, "sel", <<-2, 2>> >>}

WinVals == {<<Bad, None>>, <<None, Bad>>, <<6, 3>>}

LoadSet ==
    /\ n_call < MaxSet /\ n_call' = n_call + 1
    /\ CallLoadSpec({1}, OrcTog)

SetSet ==
    /\ n_call < MaxSet /\ n_call' = n_call + 1
    /\ CallChngNlnSet(SetVals, OrcTog)

WinSet ==
    /\ n_call < MaxSet /\ n_call' = n_call + 1
    /\ \E w \in WinVals, o \in OrcTog :
          Do(auto_mom_sel(Enter(o), w[1], w[2], FALSE))

NextSet == LoadSet \/ SetSet \/ WinSet

SpecSet == Init /\ [][NextSet]_vars

(* SpecAni: spectra are loaded and the selection for the moments is made   *)
(* and changed, with data of every kind for the anisotropy analysis, up to *)
(* MaxAni calls in all.                                                    *)

MaxAni == 3

AniSet ==
    {StdAni,
     [flat |-> TRUE,  slope |-> None, icept |-> None],
     [flat |-> FALSE, slope |-> 12,   icept |-> 4],
     [flat |-> FALSE, slope |-> -4,   icept |-> 4],
     [flat |-> FALSE, slope |-> -3,   icept |-> 4],
     [flat |-> FALSE, slope |-> 5,    icept |-> 0],
     [flat |-> FALSE, slope |-> 9,    icept |-> -1]}

OrcAni == [fit : {TRUE}, lstsq : {TRUE}, arc : {StdArc}, ani : AniSet]

LoadAni ==
    /\ n_call < MaxAni /\ n_call' = n_call + 1
    /\ CallLoadSpec(1 .. NSpec, OrcAni)

SelAni ==
    /\ n_call < MaxAni /\ n_call' = n_call + 1
    /\ CallAutoMomSel({1}, {None, mom_min_sel_cur}, OrcAni)

NextAni == LoadAni \/ SelAni

SpecAni == Init /\ [][NextAni]_vars

(* SpecFlg: spectrum 1 is loaded and the dynamic flags are then changed,   *)
(* up to MaxFlg calls in all.                                              *)

MaxFlg == 5

LoadFlg ==
    /\ n_call = 0 /\ n_call' = 1
    /\ CallLoadSpec({1}, OrcTog)

ChngFlg ==
    /\ n_call \in 1 .. (MaxFlg - 1) /\ n_call' = n_call + 1
    /\ CallChngDyn({"mom", "gss", "sel", "nln"}, OrcTog)

NextFlg == LoadFlg \/ ChngFlg

SpecFlg == Init /\ [][NextFlg]_vars

(* SpecEff: the effective collecting area is looked up for inflow angles   *)
(* given in half degrees, 0 .. MaxPsi.                                     *)

(* self.eff_area of init_var, before the factor 1.e-5, in hundredths of    *)
(* the listed numbers (rounded): entry k + 1 is for k degrees.             *)
eff_area ==
  <<338200000, 338300000, 338300000, 338200000, 338100000,
     338000000, 337800000, 337700000, 337600000, 337400000,
     337200000, 336900000, 336800000, 336400000, 336200000,
     335900000, 335500000, 335100000, 334700000, 334300000,
     333870000, 333410000, 332930000, 332430000, 331820000,
     331280000, 330630000, 329960000, 329280000, 328590000,
     327780000, 327070000, 326160000, 325350000, 324450000,
     323460000, 322490000, 320010000, 316150000, 311400000,
     305882000, 299717000, 293000000, 285700000, 277900000,
     269400000, 258699970, 246500000, 232999960, 218300000,
     202599960, 185900010, 168299960, 149700010, 130199960,
     109900010, 88779956, 66850016, 45209962, 25750016,
     9679978, 53997, 0, 0, 0,
     0, 0, 0, 0, 0,
     0, 0, 0, 0, 0,
     0, 0, 0, 0, 0,
     0, 0, 0, 0, 0,
     0, 0, 0, 0, 0,
     0 >>

(* The angle from which on the listed area is zero. *)
eff_cut == 62

(* calc_arr_clp( psi, lo, hi ) *)
calc_arr_clp(psi, lo, hi) ==
    IF psi < lo THEN lo ELSE IF psi > hi THEN hi ELSE psi

(* Twice numpy's interp( h / 2, arange( 0, Len( fp ) ), fp ): linear       *)
(* between the two neighbours, the last entry beyond the end.              *)
interp2(h, fp) ==
    IF h >= 2 * (Len(fp) - 1) THEN 2 * fp[Len(fp)]
    ELSE IF h % 2 = 0 THEN 2 * fp[(h \div 2) + 1]
    ELSE fp[((h - 1) \div 2) + 1] + fp[((h - 1) \div 2) + 2]

calc_eff_area_mut_wrap(h) == interp2(h % 181, eff_area)

(* calc_eff_area for an inflow angle of h half degrees: twice the area. *)
calc_eff_area(h) == interp2(calc_arr_clp(h, 0, 180), eff_area)

MaxPsi == 360

CalcEffArea ==
    /\ \E h \in 0 .. MaxPsi : eff' = [psi |-> h, area |-> calc_eff_area(h)]
    /\ UNCHANGED <<self, sig, fault, series, n_call, run>>

NextEff == CalcEffArea

SpecEff == Init /\ [][NextEff]_vars

---------------------------------------------------------------------------
(* auto_run, step by step.  Between two steps another thread may set       *)
(* stop_auto_run (StopReq); a step is a stretch of auto_run that reads or  *)
(* writes the flag at most once.  The trace sig runs on from step to step. *)

(* janus_time.calc_time_epc: None for a text that is no time. *)
calc_time_epc(t) == IF t = Bad THEN None ELSE t

Keep(orc) ==
    self @@ [sig |-> sig, fault |-> fault, series |-> series, orc |-> orc]

DoRun(r, nr) ==
    \E x \in {r} :
        /\ self' = [k \in DOMAIN self |-> x[k]]
        /\ sig' = x.sig
        /\ fault' = x.fault
        /\ series' = x.series
        /\ n_call' = n_call
        /\ run' = nr
        /\ eff' = eff

Stay(nr) ==
    /\ run' = nr
    /\ UNCHANGED <<self, sig, fault, series, n_call, eff>>

(* The call: the keywords, and the message 'begin'. *)
AutoRunCall(T1, T2, O) ==
    /\ run.pc = "idle"
    /\ \E t_strt \in T1, t_stop \in T2, get_next \in BOOLEAN,
          err_halt \in BOOLEAN, o \in O :
          DoRun(emit(enter(Enter(o), "auto_run"), "mesg", "begin auto"),
                [run EXCEPT !.pc = "conv",
                            !.time_strt = calc_time_epc(t_strt),
                            !.time_stop = calc_time_epc(t_stop),
                            !.get_next = get_next,
                            !.err_halt = err_halt])

(* The test of the two times: auto_run returns if one is None or they are  *)
(* not in order.                                                           *)
AutoRunConv ==
    /\ run.pc = "conv"
    /\ Stay([run EXCEPT !.pc =
                IF \/ run.time_strt = None
                   \/ run.time_stop = None
                   \/ run.time_strt >= run.time_stop
                THEN "done" ELSE "init"])

AutoRunInit ==
    /\ run.pc = "init"
    /\ Stay([run EXCEPT !.pc = "test", !.first_pass = TRUE,
                        !.stop_auto_run = FALSE])

(* while ( not self.stop_auto_run ) *)
AutoRunTest ==
    /\ run.pc = "test"
    /\ Stay([run EXCEPT !.pc = IF run.stop_auto_run THEN "fin" ELSE "load"])

(* The load of the first or of the next spectrum; an exception of          *)
(* load_spec ends auto_run.                                                *)
AutoRunLoad(O) ==
    /\ run.pc = "load"
    /\ \E o \in O :
         \E x \in {IF run.first_pass
                   THEN load_spec(Keep(o), run.time_strt, run.get_next)
                   ELSE load_spec(Keep(o), self.time_epc, TRUE)} :
            DoRun(x, [run EXCEPT
                        !.pc = IF x.fault THEN "done" ELSE "chk",
                        !.first_pass = FALSE,
                        !.late = IF run.req THEN @ + 1 ELSE @,
                        !.past = IF x.time_epc # None
                                    /\ x.time_epc > run.time_stop
                                 THEN @ + 1 ELSE @])

(* From the test of time_epc to the sleep. *)
AutoRunChk(O) ==
    /\ run.pc = "chk"
    /\ IF self.time_epc = None
       THEN Stay([run EXCEPT !.pc = "fin", !.stop_auto_run = TRUE])
       ELSE IF run.err_halt /\ self.n_mfi = 0
       THEN Stay([run EXCEPT !.pc = "fin", !.stop_auto_run = TRUE])
       ELSE IF run.err_halt /\ self.dyn_mom /\ self.mom_n = None
       THEN Stay([run EXCEPT !.pc = "fin", !.stop_auto_run = TRUE])
       ELSE IF run.err_halt /\ self.dyn_nln
       THEN \E o \in O :
               DoRun(raise(Keep(o),
                           "auto_run: core has no attribute nln_res_ion_n"),
                     [run EXCEPT !.pc = "done"])
       ELSE IF self.time_epc > run.time_stop
       THEN Stay([run EXCEPT !.pc = "fin"])
       ELSE Stay([run EXCEPT !.pc =
                     IF run.stop_auto_run THEN "fin" ELSE "test"])

(* The message 'abort' or 'end', and the signal done_auto_run. *)
AutoRunFin(O) ==
    /\ run.pc = "fin"
    /\ \E o \in O :
          DoRun(emit(emit(Keep(o), "mesg",
                          IF run.stop_auto_run THEN "abort auto"
                                               ELSE "end auto"),
                     "done_auto_run", ""),
                [run EXCEPT !.pc = "done"])

(* Another thread sets the flag while auto_run is active. *)
StopReq ==
    /\ run.pc \notin {"idle", "done"}
    /\ ~ run.req
    /\ Stay([run EXCEPT !.stop_auto_run = TRUE, !.req = TRUE,
                        !.req_at = run.pc])

(* SpecAuto: up to MaxDyn dynamic flags are switched, then auto_run is     *)
(* called once, over the standard archive, with times that are in order,   *)
(* reversed, equal or no times; a stop may be requested at any step.       *)

MaxDyn == 2

AutoTimes == {Bad} \cup (1 .. NSpec)

OrcAuto == [fit : {TRUE}, lstsq : BOOLEAN, arc : {StdArc}, ani : {StdAni}]

DynAuto ==
    /\ run.pc = "idle"
    /\ n_call < MaxDyn /\ n_call' = n_call + 1
    /\ \E e \in {<<"nln", TRUE>>, <<"mom", FALSE>>}, o \in OrcTog :
          Do(chng_dyn(Enter(o), e[1], e[2], FALSE))

AutoCall == AutoRunCall(AutoTimes, AutoTimes, OrcTog)
AutoLoad == AutoRunLoad(OrcAuto)
AutoChk  == AutoRunChk(OrcTog)
AutoFin  == AutoRunFin(OrcTog)

NextAuto ==
    \/ DynAuto
    \/ AutoCall
    \/ AutoRunConv
    \/ AutoRunInit
    \/ AutoRunTest
    \/ AutoLoad
    \/ AutoChk
    \/ AutoFin
    \/ StopReq

SpecAuto == Init /\ [][NextAuto]_vars

---------------------------------------------------------------------------
(* Reading the trace sig of the last public call: entry k is a call of a   *)
(* method, a signal or an exception, with the dynamic flags and the        *)
(* display as they were when it was recorded.                              *)

IsEmit(k, name, arg) ==
    /\ k \in 1 .. Len(sig)
    /\ sig[k].ev = "emit" /\ sig[k].name = name /\ sig[k].arg = arg

IsCall(k, name) ==
    k \in 1 .. Len(sig) /\ sig[k].ev = "call" /\ sig[k].name = name

IsRaise(k) == k \in 1 .. Len(sig) /\ sig[k].ev = "raise"

CallsAfter(k, name) ==
    Cardinality({ j \in (k + 1) .. Len(sig) : IsCall(j, name) })

(* Entry k is a call chng_dsp(value). *)
IsDsp(k, value) == IsCall(k, "chng_dsp") /\ sig[k].arg = value

(* The display when the call of chng_dsp that is entry k has returned: the *)
(* one its signal carries, or the one it found if it gave no signal.       *)
DspAfter(k) ==
    IF IsEmit(k + 1, "chng_dsp", "") THEN sig[k + 1].dsp ELSE sig[k].dsp

DynMom(k) == sig[k].dyn[1]
DynGss(k) == sig[k].dyn[2]
DynSel(k) == sig[k].dyn[3]
DynNln(k) == sig[k].dyn[4]

---------------------------------------------------------------------------
(* C11: whenever anls_mom completes (its message "end mom", followed by    *)
(* the signal chng_mom_res): if dyn_gss is on, auto_nln_gss is called next *)
(* and exactly once; if it is off, neither auto_nln_gss nor make_nln_gss   *)
(* is called, and chng_dsp("mom") is called next, which leaves "mom" as    *)
(* the display.                                                            *)

C11_EndMomCascade ==
    \A k \in 1 .. Len(sig) :
        IsEmit(k, "mesg", "end mom") =>
            /\ IsEmit(k + 1, "chng_mom_res", "")
            /\ IF DynGss(k)
               THEN /\ IsCall(k + 2, "auto_nln_gss")
                    /\ CallsAfter(k, "auto_nln_gss") = 1
               ELSE /\ CallsAfter(k, "auto_nln_gss") = 0
                    /\ CallsAfter(k, "make_nln_gss") = 0
                    /\ IsDsp(k + 2, "mom")
                    /\ DspAfter(k + 2) = "mom"

(* anls_mom completed with dyn_gss off while another result was shown. *)
C11_Witness ==
    \E k \in 1 .. Len(sig) :
        /\ IsEmit(k, "mesg", "end mom") /\ ~ DynGss(k)
        /\ sig[k].dsp # "mom"
        /\ IsEmit(k + 3, "chng_dsp", "")

(* anls_mom completed with dyn_gss on. *)
C11_WitnessOn ==
    \E k \in 1 .. Len(sig) : IsEmit(k, "mesg", "end mom") /\ DynGss(k)

---------------------------------------------------------------------------
(* C12: every regeneration of the guess signals chng_nln_gss once (in      *)
(* make_nln_gss when it gives up, in prop_nln_gss otherwise).  Whatever    *)
(* the guess then is: if dyn_sel is on, auto_nln_sel is called next; else  *)
(* if dyn_nln is on, anls_nln is called next; else chng_dsp("gsl") is      *)
(* called next, which leaves "gsl" as the display.                         *)

C12_GssCascade ==
    \A k \in 1 .. Len(sig) :
        IsEmit(k, "chng_nln_gss", "") =>
            IF DynSel(k) THEN IsCall(k + 1, "auto_nln_sel")
            ELSE IF DynNln(k) THEN IsCall(k + 1, "anls_nln")
            ELSE IsDsp(k + 1, "gsl") /\ DspAfter(k + 1) = "gsl"

---------------------------------------------------------------------------
(* C13: after every call of auto_nln_sel and of chng_nln_sel: if dyn_nln   *)
(* is on, anls_nln is called exactly once; if it is off, anls_nln is not   *)
(* called, the changed selection is signalled and chng_dsp("gsl") is       *)
(* called next, which leaves "gsl" as the display.                         *)

IsSelSignal(j) ==
    IsEmit(j, "chng_nln_sel_all", "") \/ IsEmit(j, "chng_nln_sel_cur", "")

C13_SelCascade ==
    \A k \in 1 .. Len(sig) :
        IsCall(k, "auto_nln_sel") \/ IsCall(k, "chng_nln_sel") =>
            IF DynNln(k)
            THEN CallsAfter(k, "anls_nln") = 1
            ELSE /\ CallsAfter(k, "anls_nln") = 0
                 /\ \E j \in (k + 1) .. Len(sig) :
                        /\ IsSelSignal(j)
                        /\ IsDsp(j + 1, "gsl") /\ DspAfter(j + 1) = "gsl"

---------------------------------------------------------------------------
(* C14: when load_spec has found and stored a spectrum (its message        *)
(* "end fc"), anls_mom is called exactly once if dyn_mom is on and not at  *)
(* all if it is off.  The later stages start only through the cascade:     *)
(* auto_nln_gss right after the signal of a completed moments analysis,    *)
(* with dyn_gss on; auto_nln_sel right after the guess signal, with        *)
(* dyn_sel on; anls_nln, with dyn_nln on, right after the selection signal *)
(* or, with dyn_sel off, right after the guess signal.                     *)

C14_WitnessOff ==
    \E k \in 1 .. Len(sig) : IsEmit(k, "mesg", "end fc") /\ ~ DynMom(k)

(* load_spec stored a spectrum and the cascade ran the fit. *)
C14_WitnessFit ==
    \E k \in 1 .. Len(sig) :
        IsEmit(k, "mesg", "end fc") /\ CallsAfter(k, "anls_nln") = 1

---------------------------------------------------------------------------
(* C15: a public call chng_dyn(anal, value, rerun).  StageOf is the method *)
(* that runs a stage, FlagOf the place of its flag in Flags.               *)

Stages == {"mom", "gss", "sel", "nln"}

StageOf(anal) ==
    IF anal = "mom" THEN "anls_mom"
    ELSE IF anal = "gss" THEN "auto_nln_gss"
    ELSE IF anal = "sel" THEN "auto_nln_sel"
    ELSE "anls_nln"

FlagOf(anal) ==
    IF anal = "mom" THEN 1 ELSE IF anal = "gss" THEN 2
    ELSE IF anal = "sel" THEN 3 ELSE 4

NoStageRun ==
    \A a \in Stages : CallsAfter(1, StageOf(a)) = 0

WasChngDyn(anal, value, rerun) ==
    /\ IsCall(1, "chng_dyn")
    /\ sig[1].arg = ArgDyn(anal, value, rerun)

(* The stage anal is called right after the signal chng_dyn, once. *)
StageRunOnce(anal) ==
    /\ IsEmit(2, "chng_dyn", "")
    /\ IsCall(3, StageOf(anal))
    /\ CallsAfter(1, StageOf(anal)) = 1

(* C15 as stated: every chng_dyn(anal, TRUE) with the re-run allowed sets  *)
(* the flag and runs the stage of anal once, right away; every call with   *)
(* the re-run suppressed or with value FALSE sets the flag and runs no     *)
(* stage.                                                                  *)
C15_ChngDynReruns ==
    \A anal \in Stages, value \in BOOLEAN, rerun \in BOOLEAN :
        WasChngDyn(anal, value, rerun) =>
            /\ Flags(self)[FlagOf(anal)] = value
            /\ IF value /\ rerun THEN StageRunOnce(anal) ELSE NoStageRun

(* C15, amended: the stage is run, once and right away, when the call      *)
(* switches the flag from off to on with the re-run allowed; a call that   *)
(* finds the flag already at value, switches it off or suppresses the      *)
(* re-run runs no stage.  The flag is value when the call returns.         *)
C15_ChngDynToggles ==
    \A anal \in Stages, value \in BOOLEAN, rerun \in BOOLEAN :
        WasChngDyn(anal, value, rerun) =>
            /\ Flags(self)[FlagOf(anal)] = value
            /\ IF value /\ rerun /\ ~ sig[1].dyn[FlagOf(anal)]
               THEN StageRunOnce(anal)
               ELSE NoStageRun /\ Len(sig) <= 2

(* chng_dyn switched the guess stage on and the cascade reached the fit    *)
(* selection.                                                              *)
C15_Witness ==
    /\ WasChngDyn("gss", TRUE, TRUE)
    /\ StageRunOnce("gss")
    /\ CallsAfter(1, "auto_nln_sel") = 1

(* chng_dyn was asked to switch on a flag that was on. *)
C15_WitnessSame ==
    \E anal \in Stages :
        WasChngDyn(anal, TRUE, TRUE) /\ sig[1].dyn[FlagOf(anal)]

---------------------------------------------------------------------------
(* C16: with dyn_nln on, whenever a public call has returned and there is  *)
(* a fit result (nln_res_cur_tot), the guess vector nln_gss_prm is not     *)
(* empty and the selection stored with the result, nln_res_sel, is the fit *)
(* selection nln_sel.  (The claim also asks for the moments result to be   *)
(* the one the fit was seeded from; a state that breaks the two conditions *)
(* here breaks the claim.)                                                 *)

HasFit == self.nln_res_cur_tot # NoneArr

C16_FitIsCurrent ==
    self.dyn_nln /\ HasFit =>
        /\ Len(self.nln_gss_prm) > 0
        /\ self.nln_res_sel = self.nln_sel

---------------------------------------------------------------------------
(* C17: after load_spec has stored a spectrum of n_vel >= 1 bins, for      *)
(* every bin (t, p, v): cur_vld is FALSE if the current is below cur_min;  *)
(* FALSE if v is the first or the last bin and the current is more than    *)
(* cur_jmp times that of its one neighbour; FALSE if v is interior and the *)
(* current is more than cur_jmp times that of both neighbours.             *)

Stored == LastCall = "load_spec" /\ self.n_vel >= 1

Spike(c, v, w) == c[v] > cur_jmp * c[w]

MustBeInvalid(c, n, v) ==
    \/ c[v] < cur_min
    \/ n >= 2 /\ v = 0 /\ Spike(c, v, v + 1)
    \/ n >= 2 /\ v = n - 1 /\ Spike(c, v, v - 1)
    \/ 0 < v /\ v < n - 1 /\ Spike(c, v, v - 1) /\ Spike(c, v, v + 1)

C17_CurVld ==
    Stored =>
        \A d \in Dirs(self), v \in Vels(self) :
            MustBeInvalid(self.cur[d[1]][d[2]], self.n_vel, v)
                => ~ self.cur_vld[d[1]][d[2]][v]

(* The same for spectra of two bins or more. *)
C17_CurVldTwo ==
    Stored /\ self.n_vel >= 2 =>
        \A d \in Dirs(self), v \in Vels(self) :
            MustBeInvalid(self.cur[d[1]][d[2]], self.n_vel, v)
                => ~ self.cur_vld[d[1]][d[2]][v]

---------------------------------------------------------------------------
(* C18: load_spec keeps exactly the first k bins, k being the first index  *)
(* at which the speed of either cup is not greater than the speed before   *)
(* it (the full length if there is none); so n_vel = k and vel_cen is the  *)
(* first k speeds of the first cup, strictly increasing.                   *)

(* The speeds the archive returned to the last call, if it read any. *)
ReadAt(k) == k \in 1 .. Len(sig) /\ sig[k].ev = "read"

FirstNotGreater(c1, c2) ==
    LET len  == Cardinality(DOMAIN c1)
        stop == { n \in 1 .. len : \/ n = len
                                   \/ c1[n] <= c1[n - 1]
                                   \/ c2[n] <= c2[n - 1] }
    IN  CHOOSE n \in stop : \A m \in stop : n <= m

C18_KeepRising ==
    \A k \in 1 .. Len(sig) :
        ReadAt(k) /\ LastCall = "load_spec" =>
            /\ self.n_vel = FirstNotGreater(sig[k].val[1], sig[k].val[2])
            /\ \A v \in Vels(self) : self.vel_cen[v] = sig[k].val[1][v]
            /\ \A v \in Vels(self) :
                   v > 0 => self.vel_cen[v] > self.vel_cen[v - 1]

---------------------------------------------------------------------------
(* C19: after the automatic selection for the moments (auto_mom_sel, also  *)
(* when load_spec runs it), in every direction it selected bins from, the  *)
(* selected bins are the mom_win_cur bins from v_0 on, v_0 being the       *)
(* lowest of the starts 0 .. n_vel - mom_win_cur whose window has the      *)
(* largest sum of valid currents.                                          *)

AfterAutoSel ==
    /\ LastCall \in {"load_spec", "auto_mom_sel"}
    /\ ~ fault
    /\ self.mom_sel_cur # NoneArr

ValidSum(t, p, v_0) ==
    LET in == { v \in v_0 .. (v_0 + self.mom_win_cur - 1) :
                    v < self.n_vel /\ self.cur_vld[t][p][v] }
        c  == [v \in Vels(self) |-> IF v \in in THEN self.cur[t][p][v] ELSE 0]
    IN  SumTo(c, self.n_vel - 1)

BestStart(t, p) ==
    CHOOSE v \in 0 .. (self.n_vel - self.mom_win_cur) :
        /\ \A u \in 0 .. (self.n_vel - self.mom_win_cur) :
               ValidSum(t, p, u) <= ValidSum(t, p, v)
        /\ \A u \in 0 .. (v - 1) : ValidSum(t, p, u) < ValidSum(t, p, v)

C19_BestWindow ==
    AfterAutoSel =>
        \A d \in Dirs(self) :
            CountBins(self, self.mom_sel_cur, d[1], d[2]) > 0 =>
                \A v \in Vels(self) :
                    self.mom_sel_cur[d[1]][d[2]][v]
                        <=> /\ v >= BestStart(d[1], d[2])
                            /\ v < BestStart(d[1], d[2]) + self.mom_win_cur

(* The same over the starts the loop of auto_mom_sel_cur visits, which are *)
(* 0 .. n_vel - mom_win_cur - 1; start 0 if there is none.                 *)
LoopStart(t, p) ==
    IF self.n_vel - self.mom_win_cur - 1 < 0 THEN 0
    ELSE CHOOSE v \in 0 .. (self.n_vel - self.mom_win_cur - 1) :
        /\ \A u \in 0 .. (self.n_vel - self.mom_win_cur - 1) :
               ValidSum(t, p, u) <= ValidSum(t, p, v)
        /\ \A u \in 0 .. (v - 1) : ValidSum(t, p, u) < ValidSum(t, p, v)

C19_LoopWindow ==
    AfterAutoSel =>
        \A d \in Dirs(self) :
            CountBins(self, self.mom_sel_cur, d[1], d[2]) > 0 =>
                \A v \in Vels(self) :
                    self.mom_sel_cur[d[1]][d[2]][v]
                        <=> /\ v >= LoopStart(d[1], d[2])
                            /\ v < LoopStart(d[1], d[2]) + self.mom_win_cur

---------------------------------------------------------------------------
(* C20: after the automatic selection for the moments, for a spectrum with *)
(* enough bins for the validation to keep what auto_mom_sel_azm selected   *)
(* (n_vel >= mom_min_sel_cur): mom_win_azm is the requested width clamped  *)
(* to [mom_min_sel_azm, n_azm], and in each row the selected azimuths are  *)
(* exactly the mom_win_azm azimuths p0, p0 + 1, ... modulo n_azm, p0 being *)
(* the lowest azimuth whose circular window has the largest sum of the     *)
(* directions' largest valid currents.                                     *)

MaxValid(t, p) ==
    LET c == { self.cur[t][p][v] : v \in { u \in Vels(self) : self.cur_vld[t][p][u] } }
    IN  IF c = {} THEN 0 ELSE CHOOSE x \in c : \A y \in c : y <= x

(* The sums of the circular windows of row t, from the largest valid      *)
(* currents mv of its directions.                                          *)
CircSums(mv) ==
    Array([p \in Azms(self) |->
        SumTo([w \in 0 .. (self.mom_win_azm - 1) |->
                  mv[(p + w) % self.n_azm]], self.mom_win_azm - 1)])

(* The lowest azimuth whose window sum, in cs, is the largest. *)
BestAzm(cs) ==
    CHOOSE p \in Azms(self) :
        /\ \A q \in Azms(self) : cs[q] <= cs[p]
        /\ \A q \in 0 .. (p - 1) : cs[q] < cs[p]

KeptBySel == AfterAutoSel /\ self.n_vel >= mom_min_sel_cur

C20_WitnessAll ==
    /\ KeptBySel /\ self.mom_win_azm_req > self.n_azm
    /\ \A t \in Alts(self), p \in Azms(self) : self.mom_sel_azm[t][p]

---------------------------------------------------------------------------
(* C1: a manual edit switches the flag of its stage off before the stage   *)
(* is re-run, and the flag is off when the call returns: dyn_mom for       *)
(* chng_mom_sel (when it does not raise), dyn_gss for chng_nln_gss,        *)
(* dyn_sel for chng_nln_sel.                                               *)

C1_GssSelOff ==
    /\ LastCall = "chng_nln_gss" =>
           /\ ~ self.dyn_gss
           /\ \A k \in 1 .. Len(sig) : IsCall(k, "make_nln_gss") => ~ DynGss(k)
    /\ LastCall = "chng_nln_sel" =>
           /\ ~ self.dyn_sel
           /\ \A k \in 1 .. Len(sig) : IsSelSignal(k) => ~ DynSel(k)

C1_ManualOff ==
    /\ C1_GssSelOff
    /\ LastCall = "chng_mom_sel" /\ ~ fault =>
           /\ ~ self.dyn_mom
           /\ \A k \in 1 .. Len(sig) : IsCall(k, "anls_mom") => ~ DynMom(k)

---------------------------------------------------------------------------
(* C2: when auto_mom_sel or chng_mom_sel returns, a direction is used only *)
(* if at least mom_min_sel_cur of its bins are selected; every such        *)
(* direction is used if there are at least mom_min_sel_azm of them, and    *)
(* otherwise no direction is used and mom_n_sel_azm = 0.                   *)

Qualifying ==
    { d \in Dirs(self) :
        CountBins(self, self.mom_sel_cur, d[1], d[2]) >= mom_min_sel_cur }

AfterMomSel ==
    /\ LastCall \in {"auto_mom_sel", "chng_mom_sel"}
    /\ ~ fault
    /\ self.mom_sel_cur # NoneArr

C2_SelAzmRule ==
    AfterMomSel =>
        \E q \in {Qualifying} :
            IF Cardinality(q) >= mom_min_sel_azm
            THEN /\ \A d \in Dirs(self) : self.mom_sel_azm[d[1]][d[2]] <=> d \in q
                 /\ self.mom_n_sel_azm = Cardinality(q)
            ELSE /\ \A d \in Dirs(self) : ~ self.mom_sel_azm[d[1]][d[2]]
                 /\ self.mom_n_sel_azm = 0

C2_Witness ==
    /\ AfterMomSel
    /\ LastCall = "chng_mom_sel"
    /\ Cardinality(Qualifying) \in 1 .. (mom_min_sel_azm - 1)
    /\ self.mom_n_sel_azm = 0

C2_WitnessKept ==
    /\ AfterMomSel
    /\ Cardinality(Qualifying) >= mom_min_sel_azm
    /\ self.mom_n_sel_azm = Cardinality(Qualifying)

---------------------------------------------------------------------------
(* C3: when vldt_mom_sel has run in the last call (on its own or at the    *)
(* end of auto_mom_sel or chng_mom_sel) and the next call is vldt_mom_sel, *)
(* that second run leaves mom_sel_azm, mom_sel_cur, mom_n_sel_cur and      *)
(* mom_n_sel_azm as they are and emits no chng_mom_sel_azm.                *)

VldtRan ==
    /\ self.mom_sel_cur # NoneArr
    /\ \E k \in 1 .. Len(sig) : IsCall(k, "vldt_mom_sel")

C3_VldtTwice ==
    [][ VldtRan /\ LastCall' = "vldt_mom_sel" =>
            /\ ~ fault'
            /\ self'.mom_sel_azm = self.mom_sel_azm
            /\ self'.mom_sel_cur = self.mom_sel_cur
            /\ self'.mom_n_sel_cur = self.mom_n_sel_cur
            /\ self'.mom_n_sel_azm = self.mom_n_sel_azm
            /\ ~ Emitted(sig', "chng_mom_sel_azm", "") ]_vars

C3_Witness ==
    /\ LastCall = "vldt_mom_sel"
    /\ VldtRan
    /\ ~ fault
    /\ Cardinality(Qualifying) \in 1 .. (mom_min_sel_azm - 1)
    /\ self.mom_n_sel_azm = 0

---------------------------------------------------------------------------
(* C4: when load_spec, called with dyn_mom on, has loaded a spectrum whose *)
(* currents are all below cur_min, the moments stage has emitted 'norun',  *)
(* has not begun its computation, and every moments result is None.        *)

AllBelowFloor ==
    /\ Stored
    /\ \A d \in Dirs(self) : \A v \in Vels(self) :
           self.cur[d[1]][d[2]][v] < cur_min

MomResEmpty ==
    /\ self.mom_n = None /\ self.mom_v = None /\ self.mom_w = None
    /\ self.mom_t = None /\ self.mom_r = None
    /\ self.mom_v_vec = NoneArr
    /\ self.mom_w_per = None /\ self.mom_w_par = None
    /\ self.mom_t_per = None /\ self.mom_t_par = None
    /\ self.mom_cur = NoneArr

C4_NoCurrentNoRun ==
    LastCall = "load_spec" /\ DynMom(1) /\ AllBelowFloor =>
        /\ Emitted(sig, "mesg", "norun mom")
        /\ ~ Emitted(sig, "mesg", "begin mom")
        /\ MomResEmpty

---------------------------------------------------------------------------
(* C5: when anls_mom has run in the last call and there is no spectrum     *)
(* (time_epc None or n_vel = 0) or fewer than mom_min_sel_azm directions   *)
(* are used, then no exception was raised, every moments result is None,   *)
(* and after the (last) call of anls_mom 'norun' and chng_mom_res were     *)
(* emitted, the computation was not begun and auto_nln_gss was not called. *)

MomNoRun ==
    \/ self.time_epc = None
    \/ self.n_vel = 0
    \/ self.mom_n_sel_azm < mom_min_sel_azm

LastAnlsMom(k) ==
    /\ IsCall(k, "anls_mom")
    /\ \A j \in (k + 1) .. Len(sig) : ~ IsCall(j, "anls_mom")

EmitAfter(k, name, arg) ==
    \E j \in (k + 1) .. Len(sig) : IsEmit(j, name, arg)

C5_NoRunResets ==
    \A k \in 1 .. Len(sig) :
        LastAnlsMom(k) /\ MomNoRun =>
            /\ ~ fault
            /\ MomResEmpty
            /\ self.mom_n_eta = 0
            /\ EmitAfter(k, "mesg", "norun mom")
            /\ EmitAfter(k, "chng_mom_res", "")
            /\ ~ EmitAfter(k, "mesg", "begin mom")
            /\ CallsAfter(k, "auto_nln_gss") = 0

C5_Witness ==
    /\ LastCall = "chng_mom_sel"
    /\ \E k \in 1 .. Len(sig) : LastAnlsMom(k)
    /\ self.time_epc # None
    /\ self.mom_n_sel_azm < mom_min_sel_azm
    /\ Cardinality(Qualifying) >= 1
    /\ MomResEmpty

C5_WitnessNoSpec ==
    /\ LastCall = "anls_mom"
    /\ self.time_epc = None
    /\ MomResEmpty

---------------------------------------------------------------------------
(* C6: none of the public operations load_spec, auto_mom_sel,              *)
(* chng_mom_sel, chng_dyn, chng_nln_set, chng_nln_pop, chng_nln_spc,       *)
(* chng_nln_gss, chng_nln_sel, auto_nln_gss, auto_nln_sel, anls_mom and    *)
(* anls_nln, in any order from the initial state, ends with an exception   *)
(* when no spectrum is loaded or no field data are.                        *)

PublicOps ==
    {"load_spec", "auto_mom_sel", "chng_mom_sel", "chng_dyn", "chng_nln_set",
     "chng_nln_pop", "chng_nln_spc", "chng_nln_gss", "chng_nln_sel",
     "auto_nln_gss", "auto_nln_sel", "anls_mom", "anls_nln"}

C6_NoFaultOnAbsent ==
    LastCall \in PublicOps /\ (self.n_vel = 0 \/ self.n_mfi = 0) => ~ fault

---------------------------------------------------------------------------
(* C7: a call in which the optimizer of anls_nln failed leaves the fit     *)
(* results empty (nln_res_sel, nln_res_cur_tot and nln_res_cur_ion None,   *)
(* nln_res_plas a new record), has emitted 'fail' and then chng_nln_res,   *)
(* and leaves the results log as it was before the call.                   *)

FitFailed == Emitted(sig, "mesg", "fail nln")

NlnResEmpty ==
    /\ self.nln_res_sel = NoneArr
    /\ self.nln_res_cur_tot = NoneArr
    /\ self.nln_res_cur_ion = NoneArr
    /\ self.nln_res_plas = res_plas_new

FailThenChng ==
    \A k \in 1 .. Len(sig) :
        IsEmit(k, "mesg", "fail nln") =>
            k < Len(sig) /\ IsEmit(k + 1, "chng_nln_res", "")

C7_FitFailure ==
    [][ FitFailed' =>
            /\ NlnResEmpty'
            /\ FailThenChng'
            /\ series' = series ]_vars

C7_Witness ==
    /\ FitFailed
    /\ NlnResEmpty
    /\ Len(series) >= 1

---------------------------------------------------------------------------
(* C8: nln_n_sel is the number of bins selected in nln_sel (0 when nln_sel *)
(* is None) in every state; and when anls_nln has run in the last call, it *)
(* began the fit only if that number is at least nln_min_sel, and          *)
(* otherwise emitted 'norun' and left the fit results empty.               *)

LastAnlsNln(k) ==
    /\ IsCall(k, "anls_nln")
    /\ \A j \in (k + 1) .. Len(sig) : ~ IsCall(j, "anls_nln")

C8_MinSel ==
    \E n \in {CountSel(self, self.nln_sel)} :
        /\ self.nln_n_sel = n
        /\ \A k \in 1 .. Len(sig) :
              LastAnlsNln(k) =>
                 /\ EmitAfter(k, "mesg", "begin nln") => n >= nln_min_sel
                 /\ n < nln_min_sel =>
                        /\ EmitAfter(k, "mesg", "norun nln")
                        /\ NlnResEmpty

C8_Witness ==
    /\ \E k \in 1 .. Len(sig) :
          LastAnlsNln(k) /\ EmitAfter(k, "mesg", "begin nln")
    /\ self.nln_n_sel >= nln_min_sel

C8_WitnessFew ==
    /\ \E k \in 1 .. Len(sig) :
          LastAnlsNln(k) /\ EmitAfter(k, "mesg", "norun nln")
    /\ self.nln_n_sel \in 1 .. (nln_min_sel - 1)

---------------------------------------------------------------------------
(* C9: in every state the guess nln_gss_prm is non-empty only if some      *)
(* population is used, valid and complete, population 0 is one of them,    *)
(* the three components of vec_v0 are set and there are field data; and a  *)
(* call in which anls_nln began a fit ends with a non-empty guess, with    *)
(* population 0 among the populations of the guess and with field data.    *)

GssPops ==
    { i \in Pops : /\ self.nln_pop_use[i]
                   /\ self.nln_pop_vld[i]
                   /\ pop_valid(self.nln_pyon, i, TRUE) }

C9_GuessNeeds ==
    /\ Len(self.nln_gss_prm) > 0 =>
           /\ GssPops # {}
           /\ 0 \in GssPops
           /\ None \notin Range3(self.nln_pyon.vec_v0)
           /\ self.n_mfi > 0
    /\ Emitted(sig, "mesg", "begin nln") =>
           /\ Len(self.nln_gss_prm) > 0
           /\ 0 \in self.nln_gss_pop
           /\ self.n_mfi > 0

C9_Witness ==
    /\ Emitted(sig, "mesg", "begin nln")
    /\ Len(self.nln_gss_prm) > 0

C9_WitnessEmpty ==
    /\ LastCall = "chng_nln_pop"
    /\ Len(self.nln_gss_prm) = 0
    /\ 0 \notin GssPops
    /\ self.n_mfi > 0

---------------------------------------------------------------------------
(* C10: every call leaves the records already in the results log in place  *)
(* and unaltered, and adds one record for each fit it completed ('end'     *)
(* emitted), carrying the timestamp of the current spectrum; a call that   *)
(* completed no fit leaves the log as it was.                              *)

FitsDone(q) ==
    Cardinality({ k \in 1 .. Len(q) :
        q[k].ev = "emit" /\ q[k].name = "mesg" /\ q[k].arg = "end nln" })

C10_LogAppendOnly ==
    [][ /\ Len(series') = Len(series) + FitsDone(sig')
        /\ SubSeq(series', 1, Len(series)) = series
        /\ \A j \in (Len(series) + 1) .. Len(series') :
               series'[j].time = self'.time_epc ]_vars

C10_Witness ==
    /\ FitsDone(sig) = 1
    /\ Len(series) = MaxLog
    /\ series[MaxLog].time = self.time_epc

---------------------------------------------------------------------------
(* C21: whenever the guess nln_gss_prm is non-empty, its length is 3 plus, *)
(* for each population of the guess, 1, 1 more if it drifts, and 2 if it   *)
(* is anisotropic or else 1; calc_nln_cur and the decomposition of         *)
(* anls_nln read from it, population by population in increasing order,    *)
(* the values n, dv (if drifting) and w_per, w_par or w that make_nln_gss  *)
(* wrote, and consume every entry; and writing the values read back in the *)
(* same order gives the same vector.                                       *)

PrmSize(py, i) ==
    1 + (IF py.arr_pop[i].drift THEN 1 ELSE 0)
      + (IF py.arr_pop[i].aniso THEN 2 ELSE 1)

PrmLen(py, pops) ==
    3 + SumTo([i \in Pops |-> IF i \in pops THEN PrmSize(py, i) ELSE 0],
              nln_n_pop - 1)

(* The entries of one decomposed population, in the order of the vector. *)
RecPrm(r) ==
    <<r.n>> \o (IF r.drift THEN <<r.dv>> ELSE <<>>)
            \o (IF r.aniso THEN <<r.w_per, r.w_par>> ELSE <<r.w>>)

RECURSIVE RecsPrm(_, _)
RecsPrm(dec, j) ==
    IF j > Len(dec) THEN <<>> ELSE RecPrm(dec[j]) \o RecsPrm(dec, j + 1)

(* The record r of anls_nln holds what make_nln_gss wrote for its          *)
(* population, and the record q of calc_nln_cur the same.                  *)
SameAsPop(py, r, q) ==
    \E pop \in {py.arr_pop[r.pop]} :
        /\ q.pop = r.pop
        /\ r.n = pop.n /\ q.prm_n = pop.n
        /\ r.dv = (IF pop.drift THEN pop.dv ELSE None) /\ q.prm_dv = r.dv
        /\ r.w = (IF pop.aniso THEN None ELSE pop.w) /\ q.prm_w = r.w
        /\ r.w_per = (IF pop.aniso THEN pop.w_per ELSE None)
        /\ q.prm_w_per = r.w_per
        /\ r.w_par = (IF pop.aniso THEN pop.w_par ELSE None)
        /\ q.prm_w_par = r.w_par

C21_PrmOrder ==
    Len(self.nln_gss_prm) > 0 =>
        \E prm \in {self.nln_gss_prm}, pops \in {self.nln_gss_pop},
           py \in {self.nln_pyon} :
            /\ Len(prm) = PrmLen(py, pops)
            /\ SubSeq(prm, 1, 3) = py.vec_v0
            /\ \E dec \in {res_pops(py, pops, 0, 3, prm)},
                  cur \in {calc_nln_cur_prm(py, pops, 0, 3, prm)} :
                  /\ Len(dec) = Cardinality(pops)
                  /\ Len(cur) = Cardinality(pops)
                  /\ \A j \in 1 .. Len(dec) : SameAsPop(py, dec[j], cur[j])
                  /\ \A j \in 1 .. (Len(dec) - 1) : dec[j].pop < dec[j + 1].pop
                  /\ cur[Len(cur)].c = Len(prm)
                  /\ SubSeq(prm, 1, 3) \o RecsPrm(dec, 1) = prm

(* A guess of two populations or more, one drifting and anisotropic with   *)
(* a drift that differs from its thermal speeds, one anisotropic with      *)
(* thermal speeds that differ.                                             *)
C21_Witness ==
    /\ Len(self.nln_gss_prm) > 0
    /\ Cardinality(self.nln_gss_pop) >= 2
    /\ \E i \in self.nln_gss_pop : \E pop \in {self.nln_pyon.arr_pop[i]} :
           pop.drift /\ pop.aniso /\ pop.dv # pop.w_per /\ pop.n # pop.dv
    /\ \E i \in self.nln_gss_pop : \E pop \in {self.nln_pyon.arr_pop[i]} :
           pop.aniso /\ pop.w_per # pop.w_par

(* A guess with a population that drifts and is isotropic. *)
C21_WitnessIso ==
    /\ Len(self.nln_gss_prm) > 0
    /\ \E i \in self.nln_gss_pop : \E pop \in {self.nln_pyon.arr_pop[i]} :
           pop.drift /\ ~ pop.aniso /\ pop.dv # pop.w
---------------------------------------------------------------------------
(* C22: when auto_run has returned and another thread had set              *)
(* stop_auto_run at some moment after its call, auto_run started at most   *)
(* the load_spec that moment fell into and no later one, and it emitted    *)
(* the message 'abort'.                                                    *)

Returned == run.pc = "done" /\ ~ fault

InOrder ==
    /\ run.time_strt # None
    /\ run.time_stop # None
    /\ run.time_strt < run.time_stop

C22_StopNeverLost ==
    Returned /\ InOrder /\ run.req =>
        /\ run.late <= 1
        /\ Emitted(sig, "mesg", "abort auto")

(* The same for a stop requested once auto_run has cleared the flag. *)
C22_StopInLoop ==
    Returned /\ InOrder /\ run.req /\ run.req_at \notin {"conv", "init"} =>
        /\ run.late <= 1
        /\ Emitted(sig, "mesg", "abort auto")
---------------------------------------------------------------------------
(* C23: a call of chng_nln_set with a value that is no number, or of       *)
(* auto_mom_sel with a width that is no number, does not raise; the        *)
(* setting is None afterwards, the validity flags of the population agree  *)
(* with the settings, the text of the width is kept, and the signal of     *)
(* the propagation (chng_nln_set) or of the selection (chng_mom_sel_all)   *)
(* was emitted.                                                            *)

BadSet == LastCall = "chng_nln_set" /\ sig[1].arg \in
              {"gss_n bad", "gss_d bad", "gss_w bad", "sel bad"}

BadWin ==
    /\ LastCall = "auto_mom_sel"
    /\ \/ self.mom_win_azm_txt = "bad" /\ self.mom_win_azm_req = None
       \/ self.mom_win_cur_txt = "bad" /\ self.mom_win_cur_req = None

SetVldAgree ==
    \A i \in Pops :
        /\ self.nln_set_gss_n[i] = None => ~ self.nln_set_gss_vld[i]
        /\ self.nln_set_gss_w[i] = None => ~ self.nln_set_gss_vld[i]
        /\ self.nln_set_sel_a[i] = None => ~ self.nln_set_sel_vld[i]
        /\ self.nln_set_sel_b[i] = None => ~ self.nln_set_sel_vld[i]

C23_BadValueRuns ==
    /\ BadSet =>
          /\ ~ fault
          /\ Emitted(sig, "chng_nln_set", "")
          /\ SetVldAgree
    /\ BadWin =>
          /\ ~ fault
          /\ Emitted(sig, "chng_mom_sel_all", "")

(* The part of it that does not ask for a normal return. *)
C23_BadValueKept ==
    /\ BadSet =>
          /\ Emitted(sig, "chng_nln_set", "")
          /\ SetVldAgree
    /\ BadWin => Emitted(sig, "chng_mom_sel_all", "")

---------------------------------------------------------------------------
(* C24: eff_area has 91 entries, for the angles 0 .. 90, every entry is at *)
(* most the entry before it, and the entries from the cutoff angle to 90   *)
(* are zero; so no area that calc_eff_area returns exceeds the entry of 0  *)
(* degrees.                                                                *)

EffZeroTail == \A k \in eff_cut .. 90 : eff_area[k + 1] = 0

C24_WitnessRise ==
    eff.psi = 1 /\ eff.area > 2 * eff_area[1]

---------------------------------------------------------------------------
(* C25: when a call in which auto_nln_sel ran has returned, every bin of   *)
(* nln_sel that is selected is a valid bin (cur_vld) of a direction of the *)
(* moments selection (mom_sel_azm), and every such bin that falls in the   *)
(* window of some population with a valid guess and a valid window is      *)
(* selected, whatever the windows of the other populations are.            *)

SelPop(i) == self.nln_gss_vld[i] /\ self.nln_set_sel_vld[i]

AutoSelDone ==
    /\ ~ fault
    /\ Called(sig, "auto_nln_sel")
    /\ LastCall # "chng_nln_sel"
    /\ self.nln_sel # NoneArr

C25_SelUnion ==
    AutoSelDone =>
        \A t \in 0 .. (self.n_alt - 1), p \in 0 .. (self.n_azm - 1),
           v \in Vels(self) :
            /\ self.nln_sel[t][p][v] =>
                  self.cur_vld[t][p][v] /\ self.mom_sel_azm[t][p]
            /\ ( /\ self.cur_vld[t][p][v] /\ self.mom_sel_azm[t][p]
                 /\ \E i \in Pops : SelPop(i) /\ in_window(self, i, v) )
               => self.nln_sel[t][p][v]

(* A bin is selected that is in the window of one population and outside   *)
(* the window of another. *)
C25_Witness ==
    /\ AutoSelDone
    /\ \E t \in 0 .. (self.n_alt - 1), p \in 0 .. (self.n_azm - 1),
          v \in Vels(self), i \in Pops, j \in Pops :
          /\ self.nln_sel[t][p][v]
          /\ SelPop(i) /\ in_window(self, i, v)
          /\ SelPop(j) /\ ~ in_window(self, j, v)
          /\ j < i

(* A valid bin of a selected direction stays out, being in no window. *)
C25_WitnessOut ==
    /\ AutoSelDone
    /\ \E t \in 0 .. (self.n_alt - 1), p \in 0 .. (self.n_azm - 1),
          v \in Vels(self) :
          /\ ~ self.nln_sel[t][p][v]
          /\ self.cur_vld[t][p][v] /\ self.mom_sel_azm[t][p]

---------------------------------------------------------------------------
(* C26: within a call, a stage of the cascade starts only after the stage  *)
(* before it has given its signal: between a call of anls_mom and the call *)
(* of auto_nln_gss that follows it there is chng_mom_res; between a call   *)
(* of make_nln_gss and the call of auto_nln_sel or anls_nln that follows   *)
(* it there is chng_nln_gss; between a call of auto_nln_sel and the call   *)
(* of anls_nln that follows it there is chng_nln_sel_all.  When the call   *)
(* has returned, the guess holds the velocity that anls_mom stored and     *)
(* nln_n_sel is the number of bins of nln_sel.                             *)

Prev(m, k, name) ==
    /\ m < k /\ IsCall(m, name)
    /\ \A j \in (m + 1) .. (k - 1) : ~ IsCall(j, name)

EmitBetween(m, k, name) ==
    \E j \in (m + 1) .. (k - 1) : IsEmit(j, name, "")

GssAfterMom ==
    \E k \in 1 .. Len(sig), m \in 1 .. Len(sig) :
        /\ IsCall(k, "auto_nln_gss") /\ Prev(m, k, "anls_mom")
        /\ ~ \E j \in (k + 1) .. Len(sig) :
                IsCall(j, "anls_mom") \/ IsCall(j, "auto_nln_gss")

C26_StageOrder ==
    /\ \A k \in 1 .. Len(sig), m \in 1 .. Len(sig) :
          /\ IsCall(k, "auto_nln_gss") /\ Prev(m, k, "anls_mom")
                => EmitBetween(m, k, "chng_mom_res")
          /\ ( /\ IsCall(k, "auto_nln_sel") \/ IsCall(k, "anls_nln")
               /\ Prev(m, k, "make_nln_gss") )
                => EmitBetween(m, k, "chng_nln_gss")
          /\ IsCall(k, "anls_nln") /\ Prev(m, k, "auto_nln_sel")
                => EmitBetween(m, k, "chng_nln_sel_all")
    /\ ~ fault /\ GssAfterMom /\ self.mom_v_vec # NoneArr
          => self.nln_pyon.vec_v0 = self.mom_v_vec
    /\ ~ fault /\ Called(sig, "auto_nln_sel") /\ self.nln_sel # NoneArr
          => self.nln_n_sel = CountSel(self, self.nln_sel)

(* A call ran all four stages and returned. *)
C26_Witness ==
    /\ ~ fault
    /\ \E m \in 1 .. Len(sig), k \in 1 .. Len(sig),
          a \in 1 .. Len(sig), n \in 1 .. Len(sig) :
          /\ IsCall(m, "anls_mom") /\ IsCall(k, "auto_nln_gss")
          /\ IsCall(a, "auto_nln_sel") /\ IsCall(n, "anls_nln")
          /\ m < k /\ k < a /\ a < n
          /\ EmitBetween(n, Len(sig) + 1, "chng_nln_res")
    /\ self.mom_v_vec # NoneArr

---------------------------------------------------------------------------
(* C27: when the last anls_mom of a call has ended with its results,       *)
(* mom_w_per, mom_w_par, mom_t_per, mom_t_par and mom_r are all set or all *)
(* None; they are all None exactly when there are no field data, or the    *)
(* squared cosines have no spread, or the intercept of the fit, or the sum *)
(* of intercept and slope, is not positive; mom_w is set in both cases.    *)

MomEnded ==
    /\ ~ fault
    /\ \E k \in 1 .. Len(sig) :
          LastAnlsMom(k) /\ EmitAfter(k, "mesg", "end mom")

AniFields ==
    {self.mom_w_per, self.mom_w_par, self.mom_t_per, self.mom_t_par,
     self.mom_r}

(* The data of the anisotropy analysis of the last anls_mom. *)
AniData(d) ==
    \E k \in 1 .. Len(sig) :
        /\ sig[k].ev = "data" /\ sig[k].name = "dat_x" /\ sig[k].val = d
        /\ \A j \in (k + 1) .. Len(sig) : ~ IsCall(j, "anls_mom")

AniFailed ==
    \/ self.n_mfi = 0
    \/ \E d \in AniSet :
          /\ AniData(d)
          /\ \/ d.flat
             \/ /\ d.icept # None /\ self.mom_n # NaN
                /\ d.icept <= 0 \/ d.icept + d.slope <= 0

C27_WitnessSet ==
    /\ MomEnded /\ None \notin AniFields
    /\ self.mom_w_per # NaN /\ self.mom_w_par > self.mom_w_per

C27_WitnessNoMfi == MomEnded /\ self.n_mfi = 0 /\ self.mom_w # None

---------------------------------------------------------------------------
(* C28: when a public call chng_dyn(anal, value, rerun) has ended, the     *)
(* flags of the three other stages are what they were when it was entered, *)
(* also when the stage and what follows it were run again; and a call with *)
(* value equal to the flag of anal changed no flag, gave no signal and ran *)
(* nothing.                                                                *)

C28_OnlyNamedFlag ==
    \A anal \in Stages, value \in BOOLEAN, rerun \in BOOLEAN :
        WasChngDyn(anal, value, rerun) =>
            /\ \A b \in Stages \ {anal} :
                  Flags(self)[FlagOf(b)] = sig[1].dyn[FlagOf(b)]
            /\ sig[1].dyn[FlagOf(anal)] = value =>
                  Flags(self) = sig[1].dyn /\ Len(sig) = 1

(* chng_dyn switched the moments stage on, with two of the other flags on  *)
(* and one off, and the stages after it ran.                               *)
C28_Witness ==
    /\ WasChngDyn("mom", TRUE, TRUE)
    /\ ~ sig[1].dyn[1]
    /\ CallsAfter(1, "anls_mom") = 1
    /\ CallsAfter(1, "auto_nln_gss") = 1
    /\ CallsAfter(1, "auto_nln_sel") = 1
    /\ ~ self.dyn_nln

(* chng_dyn switched the moments stage on with the guess stage off, and    *)
(* the moments analysis gave results.                                      *)
C28_WitnessOff ==
    /\ WasChngDyn("mom", TRUE, TRUE)
    /\ ~ sig[1].dyn[1] /\ ~ sig[1].dyn[2] /\ sig[1].dyn[3]
    /\ Emitted(sig, "mesg", "end mom")
    /\ ~ fault

(* chng_dyn found the flag at the value asked for. *)
C28_WitnessSame ==
    \E anal \in Stages :
        /\ WasChngDyn(anal, FALSE, TRUE)
        /\ ~ sig[1].dyn[FlagOf(anal)]
        /\ \E b \in Stages : sig[1].dyn[FlagOf(b)]

---------------------------------------------------------------------------
(* C29: a public call load_spec that is not the debugging request: if the  *)
(* display was gsl or nln when it was entered, the flags of the moments,   *)
(* the guess and the selection are on from its signal chng_dyn on, and a   *)
(* display nln with dyn_nln off is gsl at that signal; if the display was  *)
(* mom, the flags when the call has ended are those it was entered with;   *)
(* and when the call has ended, a display nln implies dyn_nln.             *)

WasLoad ==
    /\ IsCall(1, "load_spec")
    /\ ~ Emitted(sig, "mesg", "begin debug")
    /\ ~ Emitted(sig, "mesg", "end debug")

C29_LoadNormalises ==
    WasLoad =>
        /\ sig[1].dsp \in {"gsl", "nln"} =>
              /\ IsEmit(3, "chng_dyn", "")
              /\ \A k \in 4 .. Len(sig) :
                    DynMom(k) /\ DynGss(k) /\ DynSel(k)
              /\ self.dyn_mom /\ self.dyn_gss /\ self.dyn_sel
              /\ sig[1].dsp = "nln" /\ ~ DynNln(1) => sig[4].dsp = "gsl"
        /\ sig[1].dsp = "mom" => Flags(self) = sig[1].dyn
        /\ self.dsp = "nln" => self.dyn_nln

(* A load found the display nln with dyn_nln off and the moments off. *)
C29_Witness ==
    /\ WasLoad /\ sig[1].dsp = "nln" /\ ~ DynNln(1) /\ ~ DynMom(1)
    /\ self.dyn_mom /\ self.dsp # "nln"

(* A load found the display mom and a flag off, and stored a spectrum. *)
C29_WitnessMom ==
    /\ WasLoad /\ sig[1].dsp = "mom" /\ ~ DynGss(1)
    /\ Emitted(sig, "mesg", "end fc")

---------------------------------------------------------------------------
(* C30: when a run of auto_run that gave the message 'begin auto' is over, *)
(* the trace has the message 'end auto' or 'abort auto', one of them and   *)
(* once, and ends with the signal done_auto_run; and at most one spectrum  *)
(* later than the stop time was loaded.                                    *)

RunOver == run.pc = "done" /\ Emitted(sig, "mesg", "begin auto")

EndMesgs ==
    { k \in 1 .. Len(sig) :
        IsEmit(k, "mesg", "end auto") \/ IsEmit(k, "mesg", "abort auto") }

C30_RunEnds ==
    RunOver =>
        /\ Cardinality(EndMesgs) = 1
        /\ \A k \in EndMesgs : IsEmit(k + 1, "done_auto_run", "")
        /\ IsEmit(Len(sig), "done_auto_run", "")
        /\ run.past <= 1

(* The part of it that is about the spectra loaded. *)
C30_OnePast == run.past <= 1

=============================================================================
